---- MODULE Spec2Model ----
(***************************************************************************)
(* Model of the session layer of python-cloudfiles: Connection._authenticate,*)
(* http_connect, cdn_connect, make_request and cdn_request                 *)
(* (src/cloudfiles/connection.py; src/freerange/connection.py is the same  *)
(* code without the CDN side).  One Connection object is driven by one     *)
(* caller; the transport (httplib) and the Authentication object are the   *)
(* environment and answer every operation with any outcome they can have.  *)
(***************************************************************************)
EXTENDS Integers, Sequences, FiniteSets, TLC

(* ------------------------------ bounds --------------------------------- *)
NumTokens   == 2
NumUrls     == 2
NumThreads  == 2
MaxHeaders  == 2
MaxDataLen  == 3
ChunkSize   == 2
MaxSessions == 3
MaxPoolSize == 1

(* ------------------------- values of the model ------------------------- *)
\* Python's None where a record-like value is expected, and where a string
\* or tuple is expected
None == [none |-> TRUE]
Nil  == <<>>

Tokens == 1..NumTokens

\* a URL handed out by the authentication service, <<scheme, host, port,
\* path>>; the odd ones are https
MkUrl(i) == <<IF i % 2 = 1 THEN "https" ELSE "http", i,
              IF i % 2 = 1 THEN 443 ELSE 80, <<"v1", i>>>>
Urls == {MkUrl(i) : i \in 1..NumUrls}

\* utils.parse_url: url -> (host, port, uri, is_ssl)
parse_url(url) == <<url[2], url[3], url[4], url[1] = "https">>

user_agent == "python-cloudfiles/1.2.0"

\* the request descriptors the callers of the session hand in: an account
\* HEAD, a container listing with a query, an upload with a metadata header
Descriptors ==
    { [method |-> "HEAD", path |-> <<>>, data |-> <<>>, hdrs |-> None,
       parms |-> None],
      [method |-> "GET", path |-> <<"c1">>, data |-> <<>>, hdrs |-> None,
       parms |-> [name \in {"limit"} |-> 1]],
      [method |-> "PUT", path |-> <<"c1", "o1">>, data |-> <<7, 7>>,
       hdrs |-> [name \in {"X-Object-Meta-a"} |-> 1], parms |-> None] }

Statuses  == {200, 401, 404}
Responses == [status : Statuses, body : {1, 2}]

\* what httplib can raise out of request() and getresponse()
HTTPException  == "HTTPException"
SocketError    == "socket.error"
SocketTimeout  == "socket.timeout"
TransportErrors == {HTTPException, SocketError, SocketTimeout}

\* what Authentication.authenticate can raise
AuthErrors == {"AuthenticationFailed", "AuthenticationError", "ResponseError"}

VARIABLES
    token,            \* self.token
    connection_args,  \* self.connection_args
    conn_class,       \* self.conn_class
    uri,              \* self.uri
    connection,       \* self.connection
    cdn_enabled,      \* self.cdn_enabled
    cdn_args,         \* self.cdn_args
    cdn_uri,          \* self.cdn_uri
    cdn_connection,   \* self.cdn_connection
    pc,               \* position of the caller inside make_request/cdn_request
    chan,             \* "storage" in make_request, "cdn" in cdn_request
    req,              \* the locals method, path, data, headers of the call
    response,         \* the local response
    retry_from,       \* which call site of retry_request() is running
    outcome,          \* what the call gave its caller
    state0,           \* the Session State when the call started
    log,              \* what the call did to the transport and authenticator
    \* ---- ConnectionPool and the threads that share it
    pool_ctor,        \* the arguments ConnectionPool(...) was built with
    connargs,         \* self.connargs
    pool_timeout,     \* self.timeout
    maxsize,          \* Queue.maxsize
    queue,            \* Queue.queue, the (time, connobj) entries
    sessions,         \* the Connection objects constructed so far
    tpc,              \* position of each thread
    held,             \* the Connection each thread holds, 0 for none
    acq,              \* what the last get() or put() of each thread did
    terr,             \* the error the last pool call of each thread raised
    \* ---- Authentication.authenticate
    auth_resp,        \* the response of the authentication service
    auth_out,         \* what authenticate() returned or raised, None before
    \* ---- Object.write and Object.send
    obj,              \* the Object: size, _etag, _etag_override, content_type
    wpc,              \* position of the running write() or send()
    w,                \* the locals of the running write() or send()
    \* ---- the operations of Connection, Container and Object
    opc,              \* position of the running operation
    op,               \* the running operation and the responses it obtained
    \* ---- the caller of make_request and cdn_request
    prev,             \* what the caller kept of an earlier call, None for none
    \* ---- a Container and its CDN attributes
    container         \* cdn_uri, cdn_ttl and what was last asked of it

session == <<token, connection_args, conn_class, uri, connection,
             cdn_enabled, cdn_args, cdn_uri, cdn_connection>>
call    == <<pc, chan, req, response, retry_from, outcome, state0, log>>
poolvars == <<pool_ctor, connargs, pool_timeout, maxsize, queue, sessions,
              tpc, held, acq, terr>>
sessvars == <<session, call>>
vars    == <<token, connection_args, conn_class, uri, connection,
             cdn_enabled, cdn_args, cdn_uri, cdn_connection,
             pc, chan, req, response, retry_from, outcome, state0, log,
             pool_ctor, connargs, pool_timeout, maxsize, queue, sessions,
             tpc, held, acq, terr, auth_resp, auth_out, obj, wpc, w,
             opc, op, prev, container>>
authvars == <<auth_resp, auth_out>>
writevars == <<obj, wpc, w>>
opvars == <<opc, op>>

\* what the actions of one part of the library leave alone
notsess == <<poolvars, authvars, writevars, opvars, prev,
            container>>
notpool == <<sessvars, authvars, writevars, opvars, prev,
            container>>
notauth == <<sessvars, poolvars, writevars, opvars, prev,
            container>>
notwrite == <<sessvars, poolvars, authvars, opvars, prev,
            container>>
notop == <<sessvars, poolvars, authvars, writevars, prev,
            container>>

(* --------------------------- pure helpers ------------------------------ *)

\* HTTPSConnection / HTTPConnection chosen from is_ssl
ConnClass(is_ssl) == IF is_ssl THEN "HTTPSConnection" ELSE "HTTPConnection"

\* conn_class(host, port): a fresh, not yet connected handle
NewConnection(cls, host, port) == [cls |-> cls, host |-> host, port |-> port]

\* path = '/%s/%s' % (uri.rstrip('/'), '/'.join(quote(i) for i in path)),
\* plus '?k=v&...' when parms is a non-empty dict
BuildPath(prefix, segs, parms) ==
    [prefix |-> prefix, segs |-> segs,
     query |-> IF parms = None THEN None ELSE parms]

\* dict.update: the caller's headers override the defaults key by key
Update(defaults, hdrs) ==
    IF hdrs = None THEN defaults
    ELSE [k \in (DOMAIN defaults) \cup (DOMAIN hdrs) |->
             IF k \in DOMAIN hdrs THEN hdrs[k] ELSE defaults[k]]

BuildHeaders(data, tok, hdrs) ==
    Update([k \in {"Content-Length", "User-Agent", "X-Auth-Token"} |->
               CASE k = "Content-Length" -> Len(data)
                 [] k = "User-Agent"     -> user_agent
                 [] k = "X-Auth-Token"   -> tok],
           hdrs)

\* the Session State of spec section 3
SessionState ==
    [token |-> token, connection_args |-> connection_args, uri |-> uri,
     connection |-> connection, cdn_enabled |-> cdn_enabled,
     cdn_args |-> cdn_args, cdn_uri |-> cdn_uri,
     cdn_connection |-> cdn_connection]

\* the handle the running call talks to
ActiveConnection == IF chan = "cdn" THEN cdn_connection ELSE connection

(* ------------------------------- Init ---------------------------------- *)
\* a Connection after __init__ returned: one successful _authenticate()
\* that got url, cdn_url (or none) and tok; no call made yet
SessionInit(url, cdn_url, tok) ==
    /\ token = tok
    /\ connection_args = parse_url(url)
    /\ conn_class = ConnClass(parse_url(url)[4])
    /\ uri = parse_url(url)[3]
    /\ connection = NewConnection(ConnClass(parse_url(url)[4]),
                                  parse_url(url)[1], parse_url(url)[2])
    /\ cdn_enabled = (cdn_url # Nil)
    /\ cdn_args = IF cdn_url = Nil THEN Nil ELSE parse_url(cdn_url)
    /\ cdn_uri = IF cdn_url = Nil THEN Nil ELSE parse_url(cdn_url)[3]
    /\ cdn_connection =
          IF cdn_url = Nil THEN None
          ELSE NewConnection(ConnClass(parse_url(cdn_url)[4]),
                             parse_url(cdn_url)[1], parse_url(cdn_url)[2])
    /\ pc = "idle"
    /\ chan = "none"
    /\ req = None
    /\ response = None
    /\ retry_from = "none"
    /\ outcome = None
    /\ state0 = None
    /\ log = <<>>

\* no pool in use
PoolIdle ==
    /\ pool_ctor = None
    /\ connargs = None
    /\ pool_timeout = 0
    /\ maxsize = 0
    /\ queue = <<>>
    /\ sessions = <<>>
    /\ tpc = <<>>
    /\ held = <<>>
    /\ acq = <<>>
    /\ terr = <<>>

\* no authenticate() of an Authentication object under way
AuthIdle ==
    /\ auth_resp = None
    /\ auth_out = None

\* no Object in use
WriteIdle ==
    /\ obj = None
    /\ wpc = "none"
    /\ w = None

\* no operation of a Connection, Container or Object under way, and
\* nothing kept of an earlier call
OpIdle ==
    /\ opc = "none"
    /\ op = None
    /\ prev = None
    /\ container = None

\* the state after Connection.__init__ returned, with or without a CDN
\* management URL
Init ==
    /\ \E url \in Urls, cdn_url \in Urls \cup {Nil}, tok \in Tokens :
          SessionInit(url, cdn_url, tok)
    /\ PoolIdle
    /\ AuthIdle
    /\ WriteIdle
    /\ OpIdle

(* ------------------- the decisions of make_request --------------------- *)

\* "except HTTPException:" - the only errors of getresponse() that are caught
CaughtByExcept(kind) == kind = HTTPException

\* variant: every client error taken for an expired token
IsUnauthorized_AnyClientError(resp) == resp.status >= 400

\* "if response.status == 401:"
IsUnauthorized(resp) == resp.status = 401

\* variants: the status test repeated after the second retry_request(), and
\* the status test skipped after the first
AfterRetry_AlwaysCheck(from) == "check_status"
AfterRetry_NeverCheck(from) == "return"

\* where "response = retry_request()" continues: the one in the except
\* clause falls through to the status test, the one after _authenticate()
\* to "return response"
AfterRetry(from) == IF from = "except" THEN "check_status" ELSE "return"

\* the request retry_request() sends: the closure's method, path, data and
\* headers, all of them built before the first attempt
RetryRequest(r) == r

\* a call may start when no call is running
CallReady == pc \in {"idle", "returned", "raised"}

RequestEvent(r) ==
    [ev |-> "request", chan |-> chan, conn |-> ActiveConnection,
     method |-> r.method, path |-> r.path, data |-> r.data,
     headers |-> r.headers, session_token |-> token]

(* ---------------------- connecting the transports ---------------------- *)

\* http_connect: (host, port, self.uri, is_ssl) = self.connection_args;
\* self.connection = self.conn_class(host, port=port)
http_connect(args, cls) ==
    /\ uri' = args[3]
    /\ connection' = NewConnection(cls, args[1], args[2])

\* cdn_connect: (host, port, self.cdn_uri, is_ssl) = self.cdn_args;
\* self.cdn_connection = conn_class(host, port)
cdn_connect(args) ==
    /\ cdn_uri' = args[3]
    /\ cdn_connection' = NewConnection(ConnClass(args[4]), args[1], args[2])

\* variant: the CDN side enabled without a handle opened for it
_authenticate_NoCdnConnect(url, cdn_url, tok) ==
    /\ token' = tok
    /\ connection_args' = parse_url(url)
    /\ conn_class' = ConnClass(parse_url(url)[4])
    /\ http_connect(parse_url(url), ConnClass(parse_url(url)[4]))
    /\ IF cdn_url # Nil
       THEN /\ cdn_enabled' = TRUE
            /\ cdn_args' = parse_url(cdn_url)
            /\ cdn_uri' = parse_url(cdn_url)[3]
            /\ UNCHANGED cdn_connection
       ELSE UNCHANGED <<cdn_enabled, cdn_args, cdn_uri, cdn_connection>>

\* _authenticate, given what self.auth.authenticate() returned
_authenticate(url, cdn_url, tok) ==
    /\ token' = tok
    /\ connection_args' = parse_url(url)
    /\ conn_class' = ConnClass(parse_url(url)[4])
    /\ http_connect(parse_url(url), ConnClass(parse_url(url)[4]))
    /\ IF cdn_url # Nil
       THEN /\ cdn_enabled' = TRUE
            /\ cdn_args' = parse_url(cdn_url)
            /\ cdn_connect(parse_url(cdn_url))
       ELSE UNCHANGED <<cdn_enabled, cdn_args, cdn_uri, cdn_connection>>

\* the events _authenticate leaves in the log
AuthEvents(url, cdn_url) ==
    <<[ev |-> "authenticate", ok |-> TRUE],
      [ev |-> "connect", chan |-> "storage",
       conn |-> NewConnection(ConnClass(parse_url(url)[4]),
                              parse_url(url)[1], parse_url(url)[2])]>>
    \o (IF cdn_url # Nil
        THEN <<[ev |-> "connect", chan |-> "cdn",
                conn |-> NewConnection(ConnClass(parse_url(cdn_url)[4]),
                                       parse_url(cdn_url)[1],
                                       parse_url(cdn_url)[2])]>>
        ELSE <<>>)

(* ------------------------------ actions -------------------------------- *)

\* make_request, lines 140-150: build path and headers
make_request(method, path, data, hdrs, parms) ==
    /\ CallReady
    /\ UNCHANGED notsess
    /\ pc' = "request"
    /\ chan' = "storage"
    /\ req' = [method |-> method, path |-> BuildPath(uri, path, parms),
               data |-> data, headers |-> BuildHeaders(data, token, hdrs)]
    /\ response' = None
    /\ retry_from' = "none"
    /\ outcome' = None
    /\ state0' = SessionState
    /\ log' = <<>>
    /\ UNCHANGED session

\* variant: cdn_request without the cdn_enabled test
cdn_request_NoCheck(method, path, data, hdrs) ==
    /\ CallReady
    /\ UNCHANGED notsess
    /\ chan' = "cdn"
    /\ response' = None
    /\ retry_from' = "none"
    /\ state0' = SessionState
    /\ log' = <<>>
    /\ pc' = "request"
    /\ outcome' = None
    /\ req' = [method |-> method, path |-> BuildPath(cdn_uri, path, None),
               data |-> data, headers |-> BuildHeaders(data, token, hdrs)]
    /\ UNCHANGED session

\* cdn_request, lines 103-111: refuse without CDN, else build path, headers
cdn_request(method, path, data, hdrs) ==
    /\ CallReady
    /\ UNCHANGED notsess
    /\ chan' = "cdn"
    /\ response' = None
    /\ retry_from' = "none"
    /\ state0' = SessionState
    /\ log' = <<>>
    /\ IF ~cdn_enabled
       THEN /\ pc' = "raised"
            /\ outcome' = [raised |-> "CDNNotEnabled"]
            /\ req' = None
       ELSE /\ pc' = "request"
            /\ outcome' = None
            /\ req' = [method |-> method,
                       path |-> BuildPath(cdn_uri, path, None),
                       data |-> data,
                       headers |-> BuildHeaders(data, token, hdrs)]
    /\ UNCHANGED session

\* "self.connection.request(method, path, data, headers)" went out
SendRequest ==
    /\ pc = "request"
    /\ UNCHANGED notsess
    /\ pc' = "getresponse"
    /\ log' = Append(log, RequestEvent(req))
    /\ UNCHANGED <<session, chan, req, response, retry_from, outcome, state0>>

\* the same statement raised: it is outside the try, the error leaves the call
SendRequestRaises(kind) ==
    /\ pc = "request"
    /\ UNCHANGED notsess
    /\ pc' = "raised"
    /\ outcome' = [raised |-> kind]
    /\ log' = Append(log, [ev |-> "raise", at |-> "request", kind |-> kind])
    /\ UNCHANGED <<session, chan, req, response, retry_from, state0>>

\* "response = self.connection.getresponse()" inside the try
GetResponse(resp) ==
    /\ pc = "getresponse"
    /\ UNCHANGED notsess
    /\ pc' = "check_status"
    /\ response' = resp
    /\ log' = Append(log, [ev |-> "response", resp |-> resp])
    /\ UNCHANGED <<session, chan, req, retry_from, outcome, state0>>

\* getresponse() raised: HTTPException goes to retry_request(), anything
\* else leaves the call
GetResponseRaises(kind) ==
    /\ pc = "getresponse"
    /\ UNCHANGED notsess
    /\ log' = Append(log, [ev |-> "raise", at |-> "getresponse",
                           kind |-> kind])
    /\ IF CaughtByExcept(kind)
       THEN /\ pc' = "retry_connect"
            /\ retry_from' = "except"
            /\ UNCHANGED outcome
       ELSE /\ pc' = "raised"
            /\ outcome' = [raised |-> kind]
            /\ UNCHANGED retry_from
    /\ UNCHANGED <<session, chan, req, response, state0>>

\* variant: retry_request without the reconnect
RetryConnect_NoReopen ==
    /\ pc = "retry_connect"
    /\ UNCHANGED notsess
    /\ pc' = "retry_request"
    /\ UNCHANGED <<session, chan, req, response, retry_from, outcome, state0,
                   log>>

\* variant: the retry_request() of cdn_request reopens the storage side
RetryConnect_Storage ==
    /\ pc = "retry_connect"
    /\ UNCHANGED notsess
    /\ pc' = "retry_request"
    /\ http_connect(connection_args, conn_class)
    /\ log' = Append(log, [ev |-> "connect", chan |-> "storage",
          conn |-> NewConnection(conn_class, connection_args[1],
                                 connection_args[2])])
    /\ UNCHANGED <<cdn_uri, cdn_connection>>
    /\ UNCHANGED <<token, connection_args, conn_class, cdn_enabled, cdn_args,
                   chan, req, response, retry_from, outcome, state0>>

\* retry_request, first line: self.http_connect() / self.cdn_connect()
RetryConnect ==
    /\ pc = "retry_connect"
    /\ UNCHANGED notsess
    /\ pc' = "retry_request"
    /\ IF chan = "cdn"
       THEN /\ cdn_connect(cdn_args)
            /\ log' = Append(log, [ev |-> "connect", chan |-> "cdn",
                  conn |-> NewConnection(ConnClass(cdn_args[4]),
                                         cdn_args[1], cdn_args[2])])
            /\ UNCHANGED <<uri, connection>>
       ELSE /\ http_connect(connection_args, conn_class)
            /\ log' = Append(log, [ev |-> "connect", chan |-> "storage",
                  conn |-> NewConnection(conn_class, connection_args[1],
                                         connection_args[2])])
            /\ UNCHANGED <<cdn_uri, cdn_connection>>
    /\ UNCHANGED <<token, connection_args, conn_class, cdn_enabled, cdn_args,
                   chan, req, response, retry_from, outcome, state0>>

\* retry_request, second line: the request went out again
RetrySend ==
    /\ pc = "retry_request"
    /\ UNCHANGED notsess
    /\ pc' = "retry_getresponse"
    /\ log' = Append(log, RequestEvent(RetryRequest(req)))
    /\ UNCHANGED <<session, chan, req, response, retry_from, outcome, state0>>

\* retry_request, second line raised: nothing catches it
RetrySendRaises(kind) ==
    /\ pc = "retry_request"
    /\ UNCHANGED notsess
    /\ pc' = "raised"
    /\ outcome' = [raised |-> kind]
    /\ log' = Append(log, [ev |-> "raise", at |-> "request", kind |-> kind])
    /\ UNCHANGED <<session, chan, req, response, retry_from, state0>>

\* variant: the result of the retry_request() after _authenticate() is
\* dropped
RetryGetResponse_Stale(resp) ==
    /\ pc = "retry_getresponse"
    /\ UNCHANGED notsess
    /\ pc' = AfterRetry(retry_from)
    /\ response' = IF retry_from = "auth" THEN response ELSE resp
    /\ log' = Append(log, [ev |-> "response", resp |-> resp])
    /\ UNCHANGED <<session, chan, req, retry_from, outcome, state0>>

\* retry_request, third line: "return self.connection.getresponse()"
RetryGetResponse(resp) ==
    /\ pc = "retry_getresponse"
    /\ UNCHANGED notsess
    /\ pc' = AfterRetry(retry_from)
    /\ response' = resp
    /\ log' = Append(log, [ev |-> "response", resp |-> resp])
    /\ UNCHANGED <<session, chan, req, retry_from, outcome, state0>>

\* variant: retry_request() retried in its turn
RetryGetResponseRaises_Again(kind) ==
    /\ pc = "retry_getresponse"
    /\ UNCHANGED notsess
    /\ log' = Append(log, [ev |-> "raise", at |-> "getresponse",
                           kind |-> kind])
    /\ IF CaughtByExcept(kind)
       THEN /\ pc' = "retry_connect"
            /\ UNCHANGED outcome
       ELSE /\ pc' = "raised"
            /\ outcome' = [raised |-> kind]
    /\ UNCHANGED <<session, chan, req, response, retry_from, state0>>

\* retry_request, third line raised: nothing catches it
RetryGetResponseRaises(kind) ==
    /\ pc = "retry_getresponse"
    /\ UNCHANGED notsess
    /\ pc' = "raised"
    /\ outcome' = [raised |-> kind]
    /\ log' = Append(log, [ev |-> "raise", at |-> "getresponse",
                           kind |-> kind])
    /\ UNCHANGED <<session, chan, req, response, retry_from, state0>>

\* "if response.status == 401:"
CheckStatus ==
    /\ pc = "check_status"
    /\ UNCHANGED notsess
    /\ pc' = IF IsUnauthorized(response) THEN "authenticate" ELSE "return"
    /\ UNCHANGED <<session, chan, req, response, retry_from, outcome, state0,
                   log>>

\* "self._authenticate()" succeeded, then "response = retry_request()" starts
Authenticate(url, cdn_url, tok) ==
    /\ pc = "authenticate"
    /\ UNCHANGED notsess
    /\ pc' = "retry_connect"
    /\ retry_from' = "auth"
    /\ _authenticate(url, cdn_url, tok)
    /\ log' = log \o AuthEvents(url, cdn_url)
    /\ UNCHANGED <<chan, req, response, outcome, state0>>

\* self.auth.authenticate() raised and a handler calls it once more
AuthenticateRaises_Retry(kind) ==
    /\ pc = "authenticate"
    /\ UNCHANGED notsess
    /\ pc' = IF \E i \in 1..Len(log) : log[i].ev = "authenticate"
             THEN "raised" ELSE "authenticate"
    /\ outcome' = IF \E i \in 1..Len(log) : log[i].ev = "authenticate"
                  THEN [raised |-> kind] ELSE outcome
    /\ log' = Append(log, [ev |-> "authenticate", ok |-> FALSE,
                           kind |-> kind])
    /\ UNCHANGED <<session, chan, req, response, retry_from, state0>>

\* self.auth.authenticate() raised: nothing catches it
AuthenticateRaises(kind) ==
    /\ pc = "authenticate"
    /\ UNCHANGED notsess
    /\ pc' = "raised"
    /\ outcome' = [raised |-> kind]
    /\ log' = Append(log, [ev |-> "authenticate", ok |-> FALSE,
                           kind |-> kind])
    /\ UNCHANGED <<session, chan, req, response, retry_from, state0>>

\* "return response"
Return ==
    /\ pc = "return"
    /\ UNCHANGED notsess
    /\ pc' = "returned"
    /\ outcome' = [returned |-> response]
    /\ UNCHANGED <<session, chan, req, response, retry_from, state0, log>>

Next ==
    \/ \E d \in Descriptors :
          make_request(d.method, d.path, d.data, d.hdrs, d.parms)
    \/ \E d \in Descriptors : cdn_request(d.method, d.path, d.data, d.hdrs)
    \/ SendRequest
    \/ \E k \in TransportErrors : SendRequestRaises(k)
    \/ \E r \in Responses : GetResponse(r)
    \/ \E k \in TransportErrors : GetResponseRaises(k)
    \/ RetryConnect
    \/ RetrySend
    \/ \E k \in TransportErrors : RetrySendRaises(k)
    \/ \E r \in Responses : RetryGetResponse(r)
    \/ \E k \in TransportErrors : RetryGetResponseRaises(k)
    \/ CheckStatus
    \/ \E u \in Urls, c \in Urls \cup {Nil}, t \in Tokens :
          Authenticate(u, c, t)
    \/ \E k \in AuthErrors : AuthenticateRaises(k)
    \/ Return

Spec == Init /\ [][Next]_vars
(* ===================== what one call did, from its log ================== *)

IsRequest(e)  == e.ev = "request"
IsResponse(e) == e.ev = "response"
IsRaise(e)    == e.ev = "raise"
IsConnect(e)  == e.ev = "connect"
IsAuth(e)     == e.ev = "authenticate"

RequestLog  == SelectSeq(log, IsRequest)
ResponseLog == SelectSeq(log, IsResponse)
RaiseLog    == SelectSeq(log, IsRaise)
ConnectLog  == SelectSeq(log, IsConnect)
AuthCalls   == Len(SelectSeq(log, IsAuth))

CallOver == pc \in {"returned", "raised"}

\* the first attempt was sent and reading its response raised
FirstReadRaised ==
    /\ Len(log) >= 2
    /\ log[1].ev = "request"
    /\ log[2].ev = "raise"
    /\ log[2].at = "getresponse"

\* the first attempt was sent and its response arrived
FirstReadAnswered ==
    /\ Len(log) >= 2
    /\ log[1].ev = "request"
    /\ log[2].ev = "response"

\* the number of times a raised error was followed by a reconnect
TransportRetries ==
    Cardinality({i \in 1..(Len(log) - 1) :
                    log[i].ev = "raise" /\ log[i + 1].ev = "connect"})

SameRequest(a, b) ==
    /\ a.method = b.method
    /\ a.path = b.path
    /\ a.data = b.data
    /\ a.headers = b.headers

(* ------------------------------- C1 ------------------------------------ *)
C1_Case ==
    /\ FirstReadRaised
    /\ Len(ResponseLog) >= 1
    /\ ResponseLog[1].resp.status # 401

\* C1: when reading the first response raises and the re-issued attempt is
\* answered (not with 401), the call reopened the transport exactly once, to
\* the same host and port, sent the same method, path, body and headers
\* exactly once more, and hands that response to the caller.
C1_RetryOnceAfterReadFailure ==
    C1_Case =>
        /\ pc \in {"check_status", "return", "returned"}
        /\ Len(ConnectLog) = 1
        /\ ConnectLog[1].chan = chan
        /\ ConnectLog[1].conn.host = RequestLog[1].conn.host
        /\ ConnectLog[1].conn.port = RequestLog[1].conn.port
        /\ Len(RequestLog) = 2
        /\ RequestLog[2].conn = ConnectLog[1].conn
        /\ SameRequest(RequestLog[1], RequestLog[2])
        /\ AuthCalls = 0
        /\ response = ResponseLog[1].resp
        /\ (pc = "returned" => outcome = [returned |-> ResponseLog[1].resp])

C1_Witness == C1_Case /\ pc = "returned" /\ chan = "storage"

(* ------------------------------- C2 ------------------------------------ *)
\* C2: a call retries a transport failure at most once, and when a second
\* transport error is raised in the call nothing more is attempted: the
\* call ends there, raising that error to the caller.
C2_SecondFailurePropagates ==
    /\ TransportRetries <= 1
    /\ Len(RaiseLog) >= 2 =>
          /\ Len(RaiseLog) = 2
          /\ pc = "raised"
          /\ log[Len(log)] = RaiseLog[2]
          /\ outcome = [raised |-> RaiseLog[2].kind]

C2_Witness ==
    /\ FirstReadRaised
    /\ Len(RaiseLog) = 2
    /\ AuthCalls = 0
    /\ RaiseLog[2].kind = HTTPException
    /\ pc = "raised"

(* ------------------------------- C3 ------------------------------------ *)
C3_Case ==
    /\ Len(ResponseLog) = 2
    /\ ResponseLog[1].resp.status = 401
    /\ ResponseLog[2].resp.status = 200

\* C3: a 401 followed by a 200 for the re-issued request means exactly one
\* call of the authenticator in that call, and the 200 is what the caller
\* gets.
C3_OneReauthThen200 ==
    C3_Case =>
        /\ AuthCalls = 1
        /\ pc \in {"return", "returned"}
        /\ response = ResponseLog[2].resp
        /\ (pc = "returned" => outcome = [returned |-> ResponseLog[2].resp])

C3_Witness == C3_Case /\ pc = "returned" /\ Len(RaiseLog) = 0

(* ------------------------------- C4 ------------------------------------ *)
AllUnauthorized ==
    /\ Len(ResponseLog) >= 1
    /\ \A i \in 1..Len(ResponseLog) : ResponseLog[i].resp.status = 401

\* C4: when every answer is 401 the call authenticates once, and no more
\* than two answers are read; it then returns the second 401 as a response,
\* where a second transport error ends the call with a raised error.
C4_Second401IsReturned ==
    /\ AllUnauthorized =>
          /\ AuthCalls <= 1
          /\ Len(ResponseLog) <= 2
          /\ (pc = "returned" =>
                 /\ AuthCalls = 1
                 /\ Len(ResponseLog) = 2
                 /\ outcome = [returned |-> ResponseLog[2].resp])
          /\ (Len(ResponseLog) = 2 => pc \in {"return", "returned"})
    /\ (CallOver /\ Len(RaiseLog) = 2) => outcome = [raised |-> RaiseLog[2].kind]

C4_Witness ==
    /\ AllUnauthorized
    /\ pc = "returned"
    /\ Len(RaiseLog) = 0
    /\ ResponseLog[1].resp # ResponseLog[2].resp

(* ------------------------------- C5 ------------------------------------ *)
\* C5: every request put on the transport carries the session's token of
\* the moment it is sent.
C5_RequestsCarryCurrentToken ==
    \A i \in 1..Len(RequestLog) :
        RequestLog[i].headers["X-Auth-Token"] = RequestLog[i].session_token

(* ------------------------------- C6 ------------------------------------ *)
C6_Case ==
    /\ FirstReadRaised
    /\ Len(ResponseLog) >= 1
    /\ ResponseLog[1].resp.status = 401

\* C6: a call never authenticates more than once, and a 401 answering the
\* request re-issued after a transport failure still gets one
\* re-authentication and one more transmission, whose response is returned.
C6_RetriesCompose ==
    /\ AuthCalls <= 1
    /\ (C6_Case /\ pc = "returned") =>
          /\ AuthCalls = 1
          /\ Len(RequestLog) = 3
          /\ Len(ResponseLog) = 2
          /\ outcome = [returned |-> ResponseLog[2].resp]
    /\ (C6_Case /\ pc = "return") => Len(ResponseLog) = 2

C6_Witness == C6_Case /\ pc = "returned"

(* ------------------------------- C7 ------------------------------------ *)
C7_Case ==
    /\ FirstReadAnswered
    /\ log[2].resp.status # 401

\* C7: a first response that is not a 401 ends the call: one request, no
\* authenticator call, no reconnect, the Session State as it was when the
\* call started, and that response returned as received.
C7_PlainCallHasNoSideEffect ==
    C7_Case =>
        /\ pc \in {"check_status", "return", "returned"}
        /\ Len(log) = 2
        /\ SessionState = state0
        /\ response = log[2].resp
        /\ (pc = "returned" => outcome = [returned |-> log[2].resp])

C7_Witness == C7_Case /\ pc = "returned" /\ log[2].resp.status = 404

(* ------------------------------- C8 ------------------------------------ *)
\* C8: an error raised while sending the first request is retried like one
\* raised while reading the response: it reaches the caller only after the
\* transport was reopened and the request sent again.
C8_SendFailureIsRetried ==
    (pc = "raised" /\ Len(log) >= 1 /\ log[1].ev = "raise"
                   /\ log[1].at = "request")
        => Len(ConnectLog) >= 1

(* ------------------------------- C9 ------------------------------------ *)
\* C9: a connection reset, protocol violation or timeout on the first
\* attempt reaches the caller only if a transport error occurred a second
\* time in the call.
C9_EveryKindIsRetried ==
    (pc = "raised" /\ FirstReadRaised /\ outcome.raised \in TransportErrors)
        => Len(RaiseLog) >= 2

(* ------------------------------- C10 ----------------------------------- *)
C10_Case == chan = "cdn" /\ ~state0.cdn_enabled

\* C10: cdn_request on a session without CDN raises CDNNotEnabled with
\* nothing sent, no reconnect, no authenticator call and the Session State
\* untouched.
C10_CdnNotEnabledFailsFast ==
    C10_Case =>
        /\ pc = "raised"
        /\ outcome = [raised |-> "CDNNotEnabled"]
        /\ log = <<>>
        /\ SessionState = state0

C10_Witness == C10_Case /\ pc = "raised" /\ cdn_connection = None

(* ======================= ConnectionPool (a Queue) ======================= *)

Threads   == 1..NumThreads
PoolSizes == 0..MaxPoolSize
Times     == {1, 2}

default_authurl == "https://api.mosso.com/auth"
DefaultTimeout  == 5
DefaultPoolSize == 10

\* an authenticator object handed in with auth=...
MockAuthentication == <<"MockAuthentication", "jsmith", "xxxxxxxx">>

\* Authentication(username, api_key, authurl)
Authentication(username, api_key, authurl) ==
    <<"Authentication", username, api_key, authurl>>

\* kwargs.get(key, default) on a dict of keyword arguments
Get(kwargs, key, default) ==
    IF key \in DOMAIN kwargs THEN kwargs[key] ELSE default

NoKwargs == [k \in {} |-> 0]

\* the keyword arguments the constructors are called with, apart from
\* poolsize
KwargsChoices ==
    { NoKwargs,
      "auth" :> MockAuthentication,
      ("authurl" :> "https://auth.example.com/v1") @@ ("timeout" :> 30) }

\* username and api_key: given, or left at their default (None, here "")
Credentials == { <<"jsmith", "qwerty">>, <<"", "">> }

\* the calls ConnectionPool(username, api_key, poolsize=n, **kw)
PoolCtorCalls ==
    { [username |-> c[1], api_key |-> c[2],
       kwargs |-> kw @@ ("poolsize" :> n)] :
        c \in Credentials, kw \in KwargsChoices, n \in PoolSizes }

\* Connection.__init__ up to the call of _authenticate(): the configuration
\* of the new Connection, or the TypeError it raises
ConnectionInit(username, api_key, kwargs) ==
    LET timeout == Get(kwargs, "timeout", DefaultTimeout)
        auth    == IF "auth" \in DOMAIN kwargs THEN kwargs["auth"] ELSE Nil
        authurl == Get(kwargs, "authurl", default_authurl)
    IN  IF auth # Nil
        THEN [error |-> "", auth |-> auth, timeout |-> timeout]
        ELSE IF username # "" /\ api_key # "" /\ authurl # ""
             THEN [error |-> "",
                   auth |-> Authentication(username, api_key, authurl),
                   timeout |-> timeout]
             ELSE [error |-> "TypeError", auth |-> Nil, timeout |-> timeout]

\* ConnectionPool.__init__
PoolCtor(c) ==
    /\ pool_ctor = c
    /\ pool_timeout = Get(c.kwargs, "timeout", DefaultTimeout)
    /\ connargs = [username |-> c.username, api_key |-> c.api_key]
    /\ maxsize = Get(c.kwargs, "poolsize", DefaultPoolSize)
    /\ queue = <<>>

\* Connection(**self.connargs)
PoolConnection == ConnectionInit(connargs.username, connargs.api_key, NoKwargs)

\* Queue._full(): a maxsize of 0 or less is an unbounded queue
Full == maxsize > 0 /\ Len(queue) = maxsize

PoolInit ==
    /\ SessionInit(MkUrl(1), Nil, 1)
    /\ AuthIdle
    /\ WriteIdle
    /\ OpIdle
    /\ \E c \in PoolCtorCalls : PoolCtor(c)
    /\ sessions = <<>>
    /\ tpc = [t \in Threads |-> "idle"]
    /\ held = [t \in Threads |-> 0]
    /\ acq = [t \in Threads |-> "none"]
    /\ terr = [t \in Threads |-> ""]

\* a thread calls pool.get()
CallGet(t) ==
    /\ tpc[t] = "idle"
    /\ held[t] = 0
    /\ Len(sessions) < MaxSessions
    /\ tpc' = [tpc EXCEPT ![t] = "get"]
    /\ acq' = [acq EXCEPT ![t] = "none"]
    /\ terr' = [terr EXCEPT ![t] = ""]
    /\ UNCHANGED <<pool_ctor, connargs, pool_timeout, maxsize, queue,
                   sessions, held>>
    /\ UNCHANGED notpool

\* Queue.get(self, block=0) that waits for an entry, as block=1 would
PoolGet_Blocking(t) ==
    /\ tpc[t] = "get"
    /\ queue # <<>>
    /\ queue' = Tail(queue)
    /\ held' = [held EXCEPT ![t] = Head(queue)[2]]
    /\ acq' = [acq EXCEPT ![t] = "pool"]
    /\ tpc' = [tpc EXCEPT ![t] = "holding"]
    /\ UNCHANGED <<pool_ctor, connargs, pool_timeout, maxsize, sessions, terr>>
    /\ UNCHANGED notpool

\* Queue.get(self, block=0) that hands out the head entry and leaves it queued
PoolGet_Peek(t) ==
    /\ tpc[t] = "get"
    /\ IF queue # <<>>
       THEN /\ queue' = queue
            /\ held' = [held EXCEPT ![t] = Head(queue)[2]]
            /\ acq' = [acq EXCEPT ![t] = "pool"]
            /\ tpc' = [tpc EXCEPT ![t] = "holding"]
       ELSE /\ tpc' = [tpc EXCEPT ![t] = "construct"]
            /\ UNCHANGED <<queue, held, acq>>
    /\ UNCHANGED <<pool_ctor, connargs, pool_timeout, maxsize, sessions, terr>>
    /\ UNCHANGED notpool

\* Queue.get(self, block=0) followed by a health check that renews a
\* Connection found broken or with an expired token
PoolGet_HealthCheck(t) ==
    /\ tpc[t] = "get"
    /\ IF queue # <<>>
       THEN /\ queue' = Tail(queue)
            /\ held' = [held EXCEPT ![t] = Head(queue)[2]]
            /\ acq' = [acq EXCEPT ![t] = "pool"]
            /\ tpc' = [tpc EXCEPT ![t] = "holding"]
            /\ sessions' = [sessions EXCEPT ![Head(queue)[2]].health = "ok"]
       ELSE /\ tpc' = [tpc EXCEPT ![t] = "construct"]
            /\ UNCHANGED <<queue, held, acq, sessions>>
    /\ UNCHANGED <<pool_ctor, connargs, pool_timeout, maxsize, terr>>
    /\ UNCHANGED notpool

\* (create, connobj) = Queue.get(self, block=0): one atomic step under the
\* queue's mutex; Empty sends the thread to the except branch
PoolGet(t) ==
    /\ tpc[t] = "get"
    /\ IF queue # <<>>
       THEN /\ queue' = Tail(queue)
            /\ held' = [held EXCEPT ![t] = Head(queue)[2]]
            /\ acq' = [acq EXCEPT ![t] = "pool"]
            /\ tpc' = [tpc EXCEPT ![t] = "holding"]
       ELSE /\ tpc' = [tpc EXCEPT ![t] = "construct"]
            /\ UNCHANGED <<queue, held, acq>>
    /\ UNCHANGED <<pool_ctor, connargs, pool_timeout, maxsize, sessions, terr>>
    /\ UNCHANGED notpool

\* except Empty: connobj = Connection(**self.connargs), authenticated
Construct(t) ==
    /\ tpc[t] = "construct"
    /\ PoolConnection.error = ""
    /\ sessions' = Append(sessions, [auth |-> PoolConnection.auth,
                                     timeout |-> PoolConnection.timeout,
                                     authenticated |-> TRUE,
                                     health |-> "ok"])
    /\ held' = [held EXCEPT ![t] = Len(sessions) + 1]
    /\ acq' = [acq EXCEPT ![t] = "new"]
    /\ tpc' = [tpc EXCEPT ![t] = "holding"]
    /\ UNCHANGED <<pool_ctor, connargs, pool_timeout, maxsize, queue, terr>>
    /\ UNCHANGED notpool

\* Connection(**self.connargs) raises: the TypeError of __init__, or
\* whatever _authenticate() raises
ConstructRaises(t, kind) ==
    /\ tpc[t] = "construct"
    /\ IF PoolConnection.error # ""
       THEN kind = PoolConnection.error
       ELSE kind \in AuthErrors
    /\ acq' = [acq EXCEPT ![t] = "error"]
    /\ terr' = [terr EXCEPT ![t] = kind]
    /\ tpc' = [tpc EXCEPT ![t] = "idle"]
    /\ UNCHANGED <<pool_ctor, connargs, pool_timeout, maxsize, queue,
                   sessions, held>>
    /\ UNCHANGED notpool

\* the holder starts a request on its Connection
BeginRequest(t) ==
    /\ tpc[t] \in {"holding", "used"}
    /\ tpc' = [tpc EXCEPT ![t] = "using"]
    /\ UNCHANGED <<pool_ctor, connargs, pool_timeout, maxsize, queue,
                   sessions, held, acq, terr>>
    /\ UNCHANGED notpool

\* what a request leaves of the Connection it ran on: "ok" after a
\* response; "broken" after the second transport failure, which
\* make_request lets through with the failed HTTPConnection still in place;
\* "expired" after a 401 whose re-authentication failed, the old token
\* still in place
Healths == {"ok", "broken", "expired"}

\* the request of the holder is over
EndRequest(t, h) ==
    /\ tpc[t] = "using"
    /\ tpc' = [tpc EXCEPT ![t] = "used"]
    /\ sessions' = [sessions EXCEPT ![held[t]].health = h]
    /\ UNCHANGED <<pool_ctor, connargs, pool_timeout, maxsize, queue,
                   held, acq, terr>>
    /\ UNCHANGED notpool

\* the holder calls pool.put(connobj), once for the get() that gave it
CallPut(t) ==
    /\ tpc[t] \in {"holding", "used"}
    /\ tpc' = [tpc EXCEPT ![t] = "put"]
    /\ terr' = [terr EXCEPT ![t] = ""]
    /\ UNCHANGED <<pool_ctor, connargs, pool_timeout, maxsize, queue,
                   sessions, held, acq>>
    /\ UNCHANGED notpool

\* Queue.put on a queue that ignores maxsize
PoolPut_NoCap(t, now) ==
    /\ tpc[t] = "put"
    /\ queue' = Append(queue, <<now, held[t]>>)
    /\ acq' = [acq EXCEPT ![t] = "added"]
    /\ held' = [held EXCEPT ![t] = 0]
    /\ tpc' = [tpc EXCEPT ![t] = "idle"]
    /\ UNCHANGED <<pool_ctor, connargs, pool_timeout, maxsize, sessions,
                   terr>>
    /\ UNCHANGED notpool

\* Queue.put(self, (time(), connobj), block=0): one atomic step under the
\* queue's mutex; except Full: del connobj
PoolPut(t, now) ==
    /\ tpc[t] = "put"
    /\ IF Full
       THEN /\ queue' = queue
            /\ acq' = [acq EXCEPT ![t] = "discarded"]
       ELSE /\ queue' = Append(queue, <<now, held[t]>>)
            /\ acq' = [acq EXCEPT ![t] = "added"]
    /\ held' = [held EXCEPT ![t] = 0]
    /\ tpc' = [tpc EXCEPT ![t] = "idle"]
    /\ UNCHANGED <<pool_ctor, connargs, pool_timeout, maxsize, sessions,
                   terr>>
    /\ UNCHANGED notpool

PoolNext ==
    \/ \E t \in Threads : CallGet(t)
    \/ \E t \in Threads : PoolGet(t)
    \/ \E t \in Threads : Construct(t)
    \/ \E t \in Threads, k \in AuthErrors \cup {"TypeError"} :
          ConstructRaises(t, k)
    \/ \E t \in Threads : BeginRequest(t)
    \/ \E t \in Threads : EndRequest(t, "ok")
    \/ \E t \in Threads : CallPut(t)
    \/ \E t \in Threads, now \in Times : PoolPut(t, now)

PoolSpec == PoolInit /\ [][PoolNext]_vars

\* the Connections in the queue, in order
Pooled == [i \in 1..Len(queue) |-> queue[i][2]]
InPool(s) == \E i \in 1..Len(queue) : queue[i][2] = s
Holders(s) == {t \in Threads : held[t] = s}
InFlight(s) == {t \in Threads : held[t] = s /\ tpc[t] = "using"}

(* ------------------------------- C11 ----------------------------------- *)
\* what a thread inside get() does with its next step: on a non-empty pool
\* it takes the head entry out of the queue and holds it; on an empty pool
\* it goes on to construct a Connection; the construction either gives the
\* thread a Connection that did not exist before, authenticated, or raises
C11_GetStep(t) ==
    /\ (tpc[t] = "get" /\ tpc'[t] # "get") =>
          IF queue # <<>>
          THEN /\ tpc'[t] = "holding"
               /\ held'[t] = Head(queue)[2]
               /\ queue' = Tail(queue)
               /\ sessions' = sessions
          ELSE /\ tpc'[t] = "construct"
               /\ UNCHANGED <<queue, sessions, held>>
    /\ (tpc[t] = "construct" /\ tpc'[t] # "construct") =>
          \/ /\ tpc'[t] = "holding"
             /\ held'[t] = Len(sessions) + 1
             /\ Len(sessions') = Len(sessions) + 1
             /\ sessions'[held'[t]].authenticated
             /\ queue' = queue
          \/ /\ tpc'[t] = "idle"
             /\ terr'[t] # ""
             /\ held'[t] = 0
             /\ UNCHANGED <<queue, sessions>>

\* C11: ConnectionPool.get never blocks: a thread inside get() can always
\* take its step, whatever the pool holds and whatever the other threads
\* do; from a non-empty pool it removes and returns a pooled Connection,
\* otherwise it constructs and authenticates a new one or raises the
\* construction error
C11_GetNeverBlocks ==
    /\ [](\A t \in Threads :
            /\ tpc[t] = "get" => ENABLED PoolGet(t)
            /\ tpc[t] = "construct" =>
                  ENABLED (Construct(t) \/
                           \E k \in AuthErrors \cup {"TypeError"} :
                               ConstructRaises(t, k)))
    /\ [][\A t \in Threads : C11_GetStep(t)]_vars

\* one thread got a pooled Connection while another one, finding the pool
\* empty, was given a new one
C11_Witness ==
    \E t, u \in Threads :
        /\ acq[t] = "pool" /\ tpc[t] = "holding"
        /\ acq[u] = "new" /\ tpc[u] = "holding"
        /\ held[t] # held[u]

(* ------------------------------- C12 ----------------------------------- *)
\* the step that ends a put(): the thread is back without an error; if the
\* pool was below capacity the Connection is the new last entry, else the
\* queue is what it was
C12_PutStep(t) ==
    (tpc[t] = "put" /\ tpc'[t] # "put") =>
        /\ tpc'[t] = "idle"
        /\ terr'[t] = ""
        /\ IF Len(queue) < maxsize
           THEN /\ Len(queue') = Len(queue) + 1
                /\ SubSeq(queue', 1, Len(queue)) = queue
                /\ queue'[Len(queue')][2] = held[t]
           ELSE queue' = queue

C12_PutNeverBlocks ==
    \A t \in Threads :
        tpc[t] = "put" => ENABLED (\E now \in Times : PoolPut(t, now))

\* C12 as stated: the pool never holds more Connections than the configured
\* pool size; put below capacity adds, put at capacity discards without
\* blocking, raising or changing the queue
C12_NeverExceedsPoolSize ==
    /\ [](Len(queue) <= maxsize)
    /\ []C12_PutNeverBlocks
    /\ [][\A t \in Threads : C12_PutStep(t)]_vars

\* C12 amended: for a configured pool size of at least 1 the pool never
\* holds more Connections than the pool size; put below capacity adds, put
\* at capacity discards without blocking, raising or changing the queue
C12_BoundedWhenPositive ==
    /\ [](maxsize >= 1 => Len(queue) <= maxsize)
    /\ []C12_PutNeverBlocks
    /\ [][maxsize >= 1 => \A t \in Threads : C12_PutStep(t)]_vars

\* a pool of positive size at capacity, after one put added its Connection
\* and another one dropped its own
C12_Witness ==
    /\ maxsize >= 1
    /\ Len(queue) = maxsize
    /\ \E t, u \in Threads : acq[t] = "added" /\ acq[u] = "discarded"

(* ------------------------------- C13 ----------------------------------- *)
SessionIds == 1..Len(sessions)

\* no Connection is with two threads, in two requests, twice in the queue,
\* or in the queue while a thread holds it
C13_Exclusive ==
    \A s \in SessionIds :
        /\ Cardinality(Holders(s)) <= 1
        /\ Cardinality(InFlight(s)) <= 1
        /\ Cardinality({i \in 1..Len(queue) : queue[i][2] = s}) <= 1
        /\ ~(InPool(s) /\ Holders(s) # {})

\* one step hands a Connection to at most one thread, and a Connection
\* that leaves the queue is handed to a thread inside get()
C13_Step ==
    \A s \in SessionIds :
        /\ Cardinality({t \in Threads : held[t] # s /\ held'[t] = s}) <= 1
        /\ (InPool(s) /\ ~InPool(s)') =>
              \E t \in Threads : tpc[t] = "get" /\ held[t] = 0 /\ held'[t] = s

\* C13: under any interleaving of get and put by threads that put a
\* Connection once per get, a released Connection is returned by at most
\* one later get, no Connection is held by two threads or has two requests
\* in flight, and a pooled Connection leaves the pool only through a get
C13_OneHolderPerSession ==
    /\ []C13_Exclusive
    /\ [][C13_Step]_vars

\* the only Connection there is was put back by one thread and is now in
\* use by another one that got it from the pool
C13_Witness ==
    \E t, u \in Threads :
        /\ t # u
        /\ Len(sessions) = 1
        /\ acq[t] = "added" /\ held[t] = 0
        /\ acq[u] = "pool" /\ held[u] = 1 /\ tpc[u] = "using"

(* ------------------------------- C14 ----------------------------------- *)
\* Connection(username, api_key, **kwargs) with the arguments the pool was
\* constructed with
DirectConnection ==
    ConnectionInit(pool_ctor.username, pool_ctor.api_key, pool_ctor.kwargs)

\* C14: every Connection that get() constructs has the authenticator (or
\* the credentials and authentication URL) and the timeout that the pool's
\* constructor was given, and get() on an empty pool does not fail on
\* arguments that construct a Connection directly
C14_SessionsUsePoolConfig ==
    /\ \A s \in 1..Len(sessions) :
          /\ sessions[s].auth = DirectConnection.auth
          /\ sessions[s].timeout = DirectConnection.timeout
    /\ \A t \in Threads :
          terr[t] = "TypeError" => DirectConnection.error = "TypeError"

(* ------------------------------- C31 ----------------------------------- *)
\* the pool of ConnectionPool("jsmith", "qwerty", poolsize=n) in the hands
\* of threads whose requests end well or badly
HealthInit ==
    /\ SessionInit(MkUrl(1), Nil, 1)
    /\ AuthIdle
    /\ WriteIdle
    /\ OpIdle
    /\ \E n \in PoolSizes :
          PoolCtor([username |-> "jsmith", api_key |-> "qwerty",
                    kwargs |-> "poolsize" :> n])
    /\ sessions = <<>>
    /\ tpc = [t \in Threads |-> "idle"]
    /\ held = [t \in Threads |-> 0]
    /\ acq = [t \in Threads |-> "none"]
    /\ terr = [t \in Threads |-> ""]

\* two threads: what one releases the other acquires
HealthThreads == {1, 2}

HealthNext ==
    \/ \E t \in HealthThreads : CallGet(t)
    \/ \E t \in HealthThreads : PoolGet(t)
    \/ \E t \in HealthThreads : Construct(t)
    \/ \E t \in HealthThreads, k \in AuthErrors : ConstructRaises(t, k)
    \/ \E t \in HealthThreads : BeginRequest(t)
    \/ \E t \in HealthThreads, h \in Healths : EndRequest(t, h)
    \/ \E t \in HealthThreads : CallPut(t)
    \/ \E t \in HealthThreads : PoolPut(t, 1)

HealthSpec == HealthInit /\ [][HealthNext]_vars

\* the step of get() on a non-empty pool: the thread is handed the head
\* entry, no Connection is constructed and none is changed, and nothing of
\* any session, authenticator or transport moves
C31_AcquireStep(t) ==
    (tpc[t] = "get" /\ tpc'[t] # "get" /\ queue # <<>>) =>
        /\ held'[t] = Head(queue)[2]
        /\ sessions'[held'[t]] = sessions[held'[t]]
        /\ sessions' = sessions
        /\ UNCHANGED notpool

\* the Connection a thread put into the pool, as it was when it was put:
\* its entry of sessions does not change while it is queued
C31_QueuedStep ==
    \A s \in 1..Len(sessions) :
        (InPool(s) /\ InPool(s)') => sessions'[s] = sessions[s]

\* C31: get() on a non-empty pool performs no authentication call, no
\* transport request and no health check: the Connection it returns is in
\* exactly the state in which it was released, broken transport and expired
\* token included
C31_AcquireIsUnchecked ==
    [][C31_QueuedStep /\ \A t \in Threads : C31_AcquireStep(t)]_vars

\* a thread holds a Connection it got from the pool whose transport is
\* broken, or whose token has expired
C31_Witness ==
    \E t \in Threads :
        /\ acq[t] = "pool" /\ tpc[t] = "holding"
        /\ sessions[held[t]].health \in {"broken", "expired"}

(* ================== Authentication.authenticate (freerange) ============= *)

AuthStatuses == {200, 204, 401, 403, 500}
Reasons      == {"reason one", "reason two"}
HeaderNames  == {"X-Storage-Url", "x-storage-token", "Content-Length"}
HeaderValues == {"", "https://storage/v1/acct", "eaaafd18-0fed"}

\* str.lower() on the header names of the model
Lower(name) ==
    CASE name = "X-Storage-Url"   -> "x-storage-url"
      [] name = "x-storage-token" -> "x-storage-token"
      [] name = "Content-Length"  -> "content-length"
      [] name = "ETag"            -> "etag"
      [] OTHER                    -> name

\* what response.getheaders() may return: (name, value) pairs, one per name
HeaderLists ==
    { h \in UNION { [1..n -> HeaderNames \X HeaderValues] : n \in 0..MaxHeaders } :
        \A i, j \in 1..Len(h) : i # j => Lower(h[i][1]) # Lower(h[j][1]) }

AuthResponses == [status : AuthStatuses, reason : Reasons, headers : HeaderLists]

\* the outcomes of authenticate()
Raise(error, status, reason) ==
    [kind |-> "raise", error |-> error, status |-> status, reason |-> reason,
     url |-> "", token |-> ""]
ReturnPair(storage_url, storage_token) ==
    [kind |-> "return", error |-> "", status |-> 0, reason |-> "",
     url |-> storage_url, token |-> storage_token]

\* a local that is None until the loop assigns it
Unset    == [set |-> FALSE, val |-> ""]
Truthy(x) == x.set /\ x.val # ""

\* the for loop over response.getheaders(): the value of the last header
\* whose lower-cased name is name, starting from acc
RECURSIVE HeaderLoop(_, _, _)
HeaderLoop(headers, name, acc) ==
    IF headers = <<>> THEN acc
    ELSE HeaderLoop(Tail(headers), name,
                    IF Lower(Head(headers)[1]) = name
                    THEN [set |-> TRUE, val |-> Head(headers)[2]]
                    ELSE acc)

\* authenticate() that tests for a status other than 204 first
Authentication_authenticate_NoFailed(resp) ==
    IF resp.status # 204 THEN Raise("ResponseError", resp.status, resp.reason)
    ELSE LET storage_url   == HeaderLoop(resp.headers, "x-storage-url", Unset)
             storage_token == HeaderLoop(resp.headers, "x-storage-token", Unset)
         IN  IF ~(Truthy(storage_token) /\ Truthy(storage_url))
             THEN Raise("AuthenticationError", 0, "")
             ELSE ReturnPair(storage_url.val, storage_token.val)

\* Authentication.authenticate once the response is read
Authentication_authenticate(resp) ==
    IF resp.status = 401 THEN Raise("AuthenticationFailed", 0, "")
    ELSE IF resp.status # 204
    THEN Raise("ResponseError", resp.status, resp.reason)
    ELSE LET storage_url   == HeaderLoop(resp.headers, "x-storage-url", Unset)
             storage_token == HeaderLoop(resp.headers, "x-storage-token", Unset)
         IN  IF ~(Truthy(storage_token) /\ Truthy(storage_url))
             THEN Raise("AuthenticationError", 0, "")
             ELSE ReturnPair(storage_url.val, storage_token.val)

AuthInit ==
    /\ SessionInit(MkUrl(1), Nil, 1)
    /\ PoolIdle
    /\ WriteIdle
    /\ OpIdle
    /\ auth_resp \in AuthResponses
    /\ auth_out = None

\* one call of authenticate() that gets auth_resp from the service
AuthCall ==
    /\ auth_out = None
    /\ auth_out' = Authentication_authenticate(auth_resp)
    /\ UNCHANGED auth_resp
    /\ UNCHANGED notauth

AuthNext == AuthCall

AuthSpec == AuthInit /\ [][AuthNext]_vars

(* ------------------------------- C15 ----------------------------------- *)
HasHeader(name) ==
    \E i \in 1..Len(auth_resp.headers) : Lower(auth_resp.headers[i][1]) = name
HeaderValue(name) ==
    LET i == CHOOSE i \in 1..Len(auth_resp.headers) :
                 Lower(auth_resp.headers[i][1]) = name
    IN  auth_resp.headers[i][2]
HasValue(name) == HasHeader(name) /\ HeaderValue(name) # ""

\* the four outcomes, given which of the two headers count as there
C15_Outcome(url_there, token_there) ==
    auth_out # None =>
        CASE auth_resp.status = 401 ->
               auth_out.kind = "raise" /\ auth_out.error = "AuthenticationFailed"
          [] auth_resp.status \notin {401, 204} ->
               /\ auth_out.kind = "raise" /\ auth_out.error = "ResponseError"
               /\ auth_out.status = auth_resp.status
               /\ auth_out.reason = auth_resp.reason
          [] auth_resp.status = 204 /\ ~(url_there /\ token_there) ->
               auth_out.kind = "raise" /\ auth_out.error = "AuthenticationError"
          [] auth_resp.status = 204 /\ url_there /\ token_there ->
               /\ auth_out.kind = "return"
               /\ auth_out.url = HeaderValue("x-storage-url")
               /\ auth_out.token = HeaderValue("x-storage-token")

\* C15 as stated: 401 raises AuthenticationFailed; another status that is
\* not 204 raises ResponseError(status, reason); 204 without the storage
\* URL header or without the token header raises AuthenticationError; 204
\* with both headers returns their values
C15_ClassifiesByHeaderPresence ==
    C15_Outcome(HasHeader("x-storage-url"), HasHeader("x-storage-token"))

\* C15 amended: as above, where a header whose value is empty counts as
\* lacking
C15_ClassifiesByHeaderValue ==
    C15_Outcome(HasValue("x-storage-url"), HasValue("x-storage-token"))

\* a 204 with both headers among others gave the pair back
C15_Witness ==
    /\ auth_out # None
    /\ auth_resp.status = 204
    /\ auth_out.kind = "return"
    /\ auth_out.url = "https://storage/v1/acct"
    /\ auth_out.token = "eaaafd18-0fed"

(* ------------------------------- C16 ----------------------------------- *)
\* the re-authentication of this call failed
C16_Case ==
    \E i \in 1..Len(log) : IsAuth(log[i]) /\ ~log[i].ok

\* C16: when the re-authentication triggered by a 401 fails, the call ends
\* there: the failed authenticate() is the one authenticate() of the call
\* and the last thing the call did (no request, no reconnect after it), and
\* the call raises the authentication error
C16_AuthFailureIsFinal ==
    \A i \in 1..Len(log) :
        (IsAuth(log[i]) /\ ~log[i].ok) =>
            /\ i = Len(log)
            /\ AuthCalls = 1
            /\ pc = "raised"
            /\ outcome.raised \in AuthErrors

\* the first response was read, it was a 401, and authenticate() raised
\* AuthenticationFailed
C16_Witness ==
    /\ C16_Case
    /\ FirstReadAnswered
    /\ Len(RequestLog) = 1
    /\ pc = "raised"
    /\ outcome.raised = "AuthenticationFailed"

(* ===================== Object.write and Object.send ===================== *)
\* The model reads ChunkSize bytes at a time where the source reads 4096.

Bytes    == {0, 1}
Contents == UNION { [1..n -> Bytes] : n \in 0..MaxDataLen }
NoSize   == -1
Min(a, b) == IF a < b THEN a ELSE b

\* the data argument of write(): a str, or a file open at some position
StrSources  == { [kind |-> "str", name |-> "", content |-> c, pos |-> 0] :
                   c \in Contents }
FileSources == { f \in [kind : {"file"}, name : {"data", "data.txt"},
                        content : Contents, pos : 0..MaxDataLen] :
                   f.pos <= Len(f.content) }
DataSources == StrSources \cup FileSources

\* the iterable argument of send(): the chunks it yields
Chunks    == { c \in Contents : Len(c) \in 1..ChunkSize }
Iterables == { <<>> } \cup { <<c>> : c \in Chunks }
                      \cup { <<c, d>> : c \in Chunks, d \in Chunks }

\* md5 hexdigest: a value that stands for the bytes hashed
md5(bytes) == [md5 |-> bytes]

\* data.read(n) and the source after it
Read(src, n)    == SubSeq(src.content, src.pos + 1,
                          Min(src.pos + n, Len(src.content)))
Advance(src, n) == [src EXCEPT !.pos = Min(src.pos + n, Len(src.content))]

\* the bytes the read loop of compute_md5sum feeds to the checksum
RECURSIVE ReadAll(_)
ReadAll(src) ==
    IF Read(src, ChunkSize) = <<>> THEN <<>>
    ELSE Read(src, ChunkSize) \o ReadAll(Advance(src, ChunkSize))

\* Object.compute_md5sum: hashes from the current position, then seek(0)
compute_md5sum(src) == md5(ReadAll(src))
Rewound(src)        == [src EXCEPT !.pos = 0]

\* mimetypes.guess_type(data.name)[0], None given as ""
guess_type(name) == IF name = "data.txt" THEN "text/plain" ELSE ""

\* Object._make_headers, without metadata
_make_headers(o) ==
    LET base == [k \in {"Content-Length", "Content-Type"} |->
                    IF k = "Content-Length"
                    THEN (IF o.size # NoSize /\ o.size # 0 THEN o.size ELSE 0)
                    ELSE (IF o.content_type # "" THEN o.content_type
                          ELSE "application/octet-stream")]
    IN  IF o.etag # None THEN base @@ ("ETag" :> o.etag) ELSE base

\* the headers __get_conn_for_write puts on the transport
WriteHeaders(o) == _make_headers(o) @@ ("X-Auth-Token" :> token)
                                    @@ ("User-Agent" :> user_agent)

\* an Object made by create_object for a name the server does not know
NewObject == [size |-> NoSize, etag |-> None, etag_override |-> FALSE,
              content_type |-> ""]

\* the etag a caller assigns
CallerEtags == { md5(<<0>>) }

WStatuses == {201, 401, 422}

\* the headers of the response to a PUT of body, with or without an ETag
WResponseHeaders(body, with_etag) ==
    IF with_etag
    THEN << <<"Content-Length", 0>>, <<"ETag", md5(body)>> >>
    ELSE << <<"Content-Length", 0>> >>

\* locals of a call, before the first byte is sent
Locals(entry, src, verify, callback, headers, buff) ==
    [entry |-> entry, data |-> src, src |-> src, verify |-> verify,
     callback |-> callback, headers |-> headers, http |-> connection,
     buff |-> buff, sent |-> <<>>, sends |-> <<>>, transfered |-> 0,
     cb_log |-> <<>>, response |-> None, drained |-> FALSE,
     handler_read |-> FALSE, error |-> ""]

WriteInit ==
    /\ SessionInit(MkUrl(1), Nil, 1)
    /\ PoolIdle
    /\ AuthIdle
    /\ OpIdle
    /\ obj = NewObject
    /\ wpc = "idle"
    /\ w = None

\* obj.etag = value (the property setter __set_etag)
SetEtag(value) ==
    /\ wpc = "idle"
    /\ ~obj.etag_override
    /\ obj' = [obj EXCEPT !.etag = value, !.etag_override = TRUE]
    /\ UNCHANGED <<wpc, w>>
    /\ UNCHANGED notwrite

\* obj.size = n, as send() asks of its caller
SetSize(n) ==
    /\ wpc = "idle"
    /\ obj.size = NoSize
    /\ obj' = [obj EXCEPT !.size = n]
    /\ UNCHANGED <<wpc, w>>
    /\ UNCHANGED notwrite

\* write() up to the first data.read(4096): size, etag, content type, and
\* the request line and headers put on the transport
Write(src, verify, callback) ==
    /\ wpc = "idle"
    /\ LET size   == Len(src.content)
           etag   == IF verify
                     THEN (IF obj.etag_override THEN obj.etag
                           ELSE compute_md5sum(src))
                     ELSE None
           data   == IF verify /\ ~obj.etag_override THEN Rewound(src)
                     ELSE src
           ctype  == IF obj.content_type # "" THEN obj.content_type
                     ELSE IF src.kind = "file" /\ guess_type(src.name) # ""
                          THEN guess_type(src.name)
                          ELSE "application/octet-stream"
           o      == [obj EXCEPT !.size = size, !.etag = etag,
                                 !.content_type = ctype]
       IN  /\ obj' = o
           /\ w' = [Locals("write", Advance(data, ChunkSize), verify,
                           callback, WriteHeaders(o), Read(data, ChunkSize))
                       EXCEPT !.data = src]
    /\ wpc' = "loop"
    /\ UNCHANGED notwrite

\* one turn of the while loop: http.send(buff), buff = data.read(4096),
\* transfered += len(buff), callback(transfered, self.size)
WriteChunk ==
    /\ wpc = "loop"
    /\ Len(w.buff) > 0
    /\ LET buff == Read(w.src, ChunkSize)
           n    == w.transfered + Len(buff)
       IN  w' = [w EXCEPT !.sent = w.sent \o w.buff,
                          !.sends = Append(w.sends, Len(w.sent) + Len(w.buff)),
                          !.buff = buff,
                          !.src = Advance(w.src, ChunkSize),
                          !.transfered = n,
                          !.cb_log = IF w.callback
                                     THEN Append(w.cb_log, <<n, obj.size>>)
                                     ELSE w.cb_log]
    /\ UNCHANGED <<obj, wpc>>
    /\ UNCHANGED notwrite

\* the while loop ends on an empty read
WriteLoopEnd ==
    /\ wpc = "loop"
    /\ Len(w.buff) = 0
    /\ wpc' = "getresponse"
    /\ UNCHANGED <<obj, w>>
    /\ UNCHANGED notwrite

\* send() up to the for loop; raises InvalidObjectSize when size is not set
Send(iterable) ==
    /\ wpc = "idle"
    /\ IF obj.size = NoSize
       THEN /\ w' = [Locals("send", iterable, FALSE, FALSE, <<>>, <<>>)
                        EXCEPT !.error = "InvalidObjectSize"]
            /\ wpc' = "raised"
            /\ obj' = obj
       ELSE LET o == [obj EXCEPT
                        !.etag = IF obj.etag_override THEN obj.etag ELSE None,
                        !.content_type = IF obj.content_type # ""
                                         THEN obj.content_type
                                         ELSE "application/octet-stream"]
            IN  /\ obj' = o
                /\ w' = Locals("send", iterable, FALSE, FALSE,
                               WriteHeaders(o), <<>>)
                /\ wpc' = "sendloop"
    /\ UNCHANGED notwrite

\* one turn of the for loop: http.send(chunk), transferred += len(chunk)
SendChunk ==
    /\ wpc = "sendloop"
    /\ w.src # <<>>
    /\ w' = [w EXCEPT !.sent = w.sent \o Head(w.src),
                      !.sends = Append(w.sends, Len(w.sent) + Len(Head(w.src))),
                      !.src = Tail(w.src),
                      !.transfered = w.transfered + Len(Head(w.src))]
    /\ UNCHANGED <<obj, wpc>>
    /\ UNCHANGED notwrite

\* the iterable is exhausted: IncompleteSend if it gave less than self.size
SendLoopEnd ==
    /\ wpc = "sendloop"
    /\ w.src = <<>>
    /\ IF w.transfered < obj.size
       THEN /\ w' = [w EXCEPT !.error = "IncompleteSend"]
            /\ wpc' = "raised"
       ELSE /\ w' = w
            /\ wpc' = "getresponse"
    /\ UNCHANGED obj
    /\ UNCHANGED notwrite

\* response = http.getresponse(); buff = response.read()
WriteGetResponse(status, with_etag) ==
    /\ wpc = "getresponse"
    /\ w' = [w EXCEPT !.response =
                         [status |-> status,
                          headers |-> WResponseHeaders(w.sent, with_etag)],
                      !.drained = TRUE]
    /\ wpc' = "status"
    /\ UNCHANGED obj
    /\ UNCHANGED notwrite

\* variant: a handler that raises without reading the response
WriteTimeout_NoDrain(at, status) ==
    /\ \/ at = "send" /\ wpc = "loop" /\ Len(w.buff) > 0
       \/ at = "send" /\ wpc = "sendloop" /\ w.src # <<>>
       \/ at \in {"getresponse", "read", "handler"} /\ wpc = "getresponse"
    /\ w' = [w EXCEPT !.error = "timeout",
                      !.response = IF at \in {"read", "handler"}
                                   THEN [status |-> status, headers |-> <<>>]
                                   ELSE None]
    /\ wpc' = "raised"
    /\ UNCHANGED obj
    /\ UNCHANGED notwrite

\* socket.timeout inside the try block: in http.send ("send"), in
\* http.getresponse ("getresponse"), or in response.read, where the handler
\* reads the response again before it raises; that read returns ("read") or
\* times out in its turn ("handler"), and then its timeout is what is raised
WriteTimeout(at, status) ==
    /\ \/ at = "send" /\ wpc = "loop" /\ Len(w.buff) > 0
       \/ at = "send" /\ wpc = "sendloop" /\ w.src # <<>>
       \/ at \in {"getresponse", "read", "handler"} /\ wpc = "getresponse"
    /\ w' = [w EXCEPT !.error = "timeout",
                      !.response = IF at \in {"read", "handler"}
                                   THEN [status |-> status, headers |-> <<>>]
                                   ELSE None,
                      !.handler_read = (at \in {"read", "handler"}),
                      !.drained = (at = "read")]
    /\ wpc' = "raised"
    /\ UNCHANGED obj
    /\ UNCHANGED notwrite

\* the status check, and the etag of the response taken over: by write()
\* when verify is off, by send() always
WriteCheckStatus ==
    /\ wpc = "status"
    /\ IF w.response.status < 200 \/ w.response.status > 299
       THEN /\ w' = [w EXCEPT !.error = "ResponseError"]
            /\ wpc' = "raised"
            /\ obj' = obj
       ELSE /\ w' = w
            /\ wpc' = "done"
            /\ obj' = IF w.entry = "send" \/ ~w.verify
                      THEN LET e == HeaderLoop(w.response.headers, "etag", Unset)
                           IN  IF e.set THEN [obj EXCEPT !.etag = e.val]
                               ELSE obj
                      ELSE obj
    /\ UNCHANGED notwrite

WriteNext ==
    \/ \E v \in CallerEtags : SetEtag(v)
    \/ \E n \in 0..MaxDataLen : SetSize(n)
    \/ \E src \in DataSources, verify \in BOOLEAN, callback \in BOOLEAN :
          Write(src, verify, callback)
    \/ WriteChunk
    \/ WriteLoopEnd
    \/ \E it \in Iterables : Send(it)
    \/ SendChunk
    \/ SendLoopEnd
    \/ \E st \in WStatuses, with_etag \in BOOLEAN :
          WriteGetResponse(st, with_etag)
    \/ \E at \in {"send", "getresponse", "read", "handler"}, st \in WStatuses :
          WriteTimeout(at, st)
    \/ WriteCheckStatus

WriteSpec == WriteInit /\ [][WriteNext]_vars

(* ------------------------------- C17 ----------------------------------- *)
\* the body of the running write() or send() is all on the transport
BodySent == w # None /\ wpc \in {"getresponse", "status", "done"}

\* C17: the Content-Length header of a request equals the number of body
\* bytes put on the transport for it: for the request of make_request and
\* cdn_request, and for the PUT of Object.write and Object.send once its
\* body is sent
C17_ContentLengthIsBodyLength ==
    /\ req # None => req.headers["Content-Length"] = Len(req.data)
    /\ BodySent => w.headers["Content-Length"] = Len(w.sent)

(* ------------------------------- C18 ----------------------------------- *)
\* C18: a write() or send() whose data source gave fewer bytes than the
\* declared size does not go on to read a response: it raises
\* IncompleteSend when the source is exhausted
C18_ShortSourceRaisesIncompleteSend ==
    /\ BodySent => Len(w.sent) >= obj.size
    /\ (w # None /\ wpc = "raised" /\ w.error = "IncompleteSend") =>
          Len(w.sent) < obj.size

(* ------------------------------- C19 ----------------------------------- *)
\* C19: write() calls the callback once after each chunk it sent, with the
\* bytes sent so far and the total size; the count is positive from the
\* first call on and is the total size at the last call
C19_CallbackGetsBytesSent ==
    (w # None /\ w.entry = "write" /\ w.callback) =>
        /\ Len(w.cb_log) = Len(w.sends)
        /\ \A i \in 1..Len(w.cb_log) :
              /\ w.cb_log[i] = <<w.sends[i], obj.size>>
              /\ w.cb_log[i][1] > 0
        /\ (BodySent /\ w.cb_log # <<>>) =>
              w.cb_log[Len(w.cb_log)][1] = obj.size

(* ------------------------------- C20 ----------------------------------- *)
\* the ETag header of the response, None when there is none
ServerEtag ==
    LET e == HeaderLoop(w.response.headers, "etag", Unset)
    IN  IF e.set THEN e.val ELSE None

\* C20: write(verify=True) on an object without a caller-assigned etag
\* sends the md5 of the data as the ETag header and keeps it as the
\* object's etag; write(verify=False) clears the etag, sends no ETag header,
\* and after a 2xx response the object's etag is the ETag header of the
\* response
C20_VerifyAndTrustServerModes ==
    (w # None /\ w.entry = "write") =>
        /\ (w.verify /\ ~obj.etag_override) =>
              /\ "ETag" \in DOMAIN w.headers
              /\ w.headers["ETag"] = md5(w.data.content)
              /\ obj.etag = md5(w.data.content)
        /\ ~w.verify =>
              /\ "ETag" \notin DOMAIN w.headers
              /\ wpc # "done" => obj.etag = None
              /\ wpc = "done" => obj.etag = ServerEtag

(* ======================================================================= *)
(* The operations of Connection, Container and Object                      *)
(* (src/cloudfiles/connection.py, container.py, storage_object.py) and of  *)
(* the older freerange package (src/freerange/connection.py, basket.py,    *)
(* egg.py, storage_object.py).  Each operation checks its argument, issues *)
(* its requests through make_request or cdn_request, reads or does not     *)
(* read the body of the response it gets, and turns the status into a      *)
(* return or an exception.  make_request and cdn_request are taken as      *)
(* their caller sees them here: they hand back the final response or       *)
(* raise; their steps are the actions of Spec.                             *)
(* ======================================================================= *)
MaxNameLen == 2

\* container and object names, strings over an ordinary character and '/'
Chars == {"c", "/"}
Names == UNION {[1..n -> Chars] : n \in 0..MaxNameLen}

\* the statuses the final response of make_request or cdn_request can have
OpStatuses == {200, 202, 404, 409, 500}

\* "if not container_name or '/' in container_name:"
BadContainerName(name) == name = <<>> \/ \E i \in 1..Len(name) : name[i] = "/"

\* "(response.status < 200) or (response.status > 299)" negated
Is2xx(status) == ~ (status < 200 \/ status > 299)

\* one request of an operation: the call it goes through, when the code
\* reads the body of the response ("first": before it looks at the status,
\* "both": in the error branch and in the success branch, "success": in the
\* success branch only, "never"), and the test it puts the status to
Step(channel, method, read, check) ==
    [chan |-> channel, method |-> method, read |-> read, check |-> check]

\* the exception the status test of a request raises, "none" for none
Raises(check, status) ==
    CASE check = "ContainerNotEmpty" ->
            IF status = 409 THEN "ContainerNotEmpty"
            ELSE IF ~ Is2xx(status) THEN "ResponseError" ELSE "none"
      [] check = "NoSuchContainer" ->
            IF status = 404 THEN "NoSuchContainer"
            ELSE IF ~ Is2xx(status) THEN "ResponseError" ELSE "none"
      [] check = "NoSuchObject" ->
            IF status = 404 THEN "NoSuchObject"
            ELSE IF ~ Is2xx(status) THEN "ResponseError" ELSE "none"
      [] check = "initialize" ->
            IF status = 404 THEN "none"
            ELSE IF ~ Is2xx(status) THEN "ResponseError" ELSE "none"
      [] check = "202" ->
            IF status # 202 THEN "ResponseError" ELSE "none"
      [] check = "unchecked" -> "none"
      [] OTHER ->
            IF ~ Is2xx(status) THEN "ResponseError" ELSE "none"

\* whether response.read() has run when the operation leaves the request
ReadsBody(read, raised) ==
    CASE read = "first"   -> TRUE
      [] read = "both"    -> TRUE
      [] read = "success" -> ~ raised
      [] read = "stream"  -> raised
      [] OTHER            -> FALSE

(* ----------------------- cloudfiles: Container ------------------------- *)
\* Container._fetch_cdn_data: the CDN attributes are taken from a 2xx answer,
\* any other answer is passed over; the body is not read
_fetch_cdn_data == Step("cdn", "HEAD", "never", "unchecked")

\* Container.__init__
Container__init__(cdn) == IF cdn THEN <<_fetch_cdn_data>> ELSE <<>>

\* Container.make_public of a container not yet published
make_public == <<Step("cdn", "PUT", "never", "2xx")>>

\* Container.make_private
make_private == <<Step("cdn", "POST", "never", "2xx")>>

\* Container._list_objects_raw, under list_objects, list_objects_info and
\* get_objects
_list_objects_raw == <<Step("storage", "GET", "both", "2xx")>>

\* Container.delete_object
delete_object == <<Step("storage", "DELETE", "both", "2xx")>>

(* ------------------------ cloudfiles: Object --------------------------- *)
\* Object._initialize: no request for an object without a name
_initialize(name) ==
    IF name = <<>> THEN <<>>
    ELSE <<Step("storage", "HEAD", "first", "initialize")>>

\* Container.create_object: Object(self, object_name)
create_object(name) == _initialize(name)

\* Container.get_object: Object(self, object_name, force_exists=True)
get_object(name) ==
    IF name = <<>> THEN <<>>
    ELSE <<Step("storage", "HEAD", "first", "NoSuchObject")>>

\* variant: a missing object reported by its own exception
Object_read_NotFound == <<Step("storage", "GET", "both", "NoSuchObject")>>

\* Object.read
Object_read == <<Step("storage", "GET", "both", "2xx")>>

\* Object.stream: the error branch reads the body and raises; on success
\* the generator it returns reads the body as its caller consumes it
Object_stream == <<Step("storage", "GET", "stream", "2xx")>>

\* Object.sync_metadata of an object with metadata
sync_metadata == <<Step("storage", "POST", "first", "202")>>

(* ---------------------- cloudfiles: Connection ------------------------- *)
\* Connection.get_info
get_info == <<Step("storage", "HEAD", "first", "2xx")>>

\* Connection.create_container
create_container(cdn) ==
    <<Step("storage", "PUT", "first", "2xx")>> \o Container__init__(cdn)

\* variant: a container with objects in it reported as any other error
delete_container_No409(cdn) ==
    <<Step("storage", "DELETE", "first", "2xx")>>
        \o (IF cdn THEN <<Step("cdn", "DELETE", "never", "unchecked")>>
            ELSE <<>>)

\* Connection.delete_container
delete_container(cdn) ==
    <<Step("storage", "DELETE", "first", "ContainerNotEmpty")>>
        \o (IF cdn THEN <<Step("cdn", "DELETE", "never", "unchecked")>>
            ELSE <<>>)

\* Connection.get_container
get_container(cdn) ==
    <<Step("storage", "HEAD", "first", "NoSuchContainer")>>
        \o Container__init__(cdn)

\* Connection.list_containers, under get_all_containers
list_containers == <<Step("storage", "GET", "both", "2xx")>>

\* Connection.list_public_containers
list_public_containers == <<Step("cdn", "GET", "both", "2xx")>>

(* ------------------------------ freerange ------------------------------ *)
\* freerange Connection.create_container; its Container makes no request
freerange_create_container == <<Step("storage", "PUT", "first", "2xx")>>

\* freerange Connection.delete_container
freerange_delete_container ==
    <<Step("storage", "DELETE", "first", "ContainerNotEmpty")>>

\* freerange Connection.get_container
freerange_get_container ==
    <<Step("storage", "HEAD", "first", "NoSuchContainer")>>

\* freerange Connection.list_containers
freerange_list_containers == <<Step("storage", "GET", "both", "2xx")>>

\* freerange Object.read
freerange_Object_read == <<Step("storage", "GET", "both", "2xx")>>

\* Basket.list_eggs
list_eggs == <<Step("storage", "GET", "success", "2xx")>>

\* Basket.delete_egg
delete_egg == <<Step("storage", "DELETE", "success", "2xx")>>

\* Basket.create_egg: Egg(self, egg_name), whose _initialize always asks
create_egg == <<Step("storage", "HEAD", "first", "initialize")>>

\* Egg.read
Egg_read == <<Step("storage", "GET", "success", "2xx")>>

(* ------------------------- running an operation ------------------------ *)
\* the operations that take a container name
ContainerOps == {"create_container", "delete_container", "get_container"}

CloudfilesOps ==
    [lib : {"cloudfiles"},
     name : ContainerOps \cup
            {"get_info", "list_containers", "list_public_containers",
             "make_public", "make_private", "_list_objects_raw",
             "delete_object", "create_object", "get_object", "read",
             "stream", "sync_metadata"}]

FreerangeOps ==
    [lib : {"freerange"},
     name : ContainerOps \cup
            {"list_containers", "read", "list_eggs", "delete_egg",
             "create_egg", "Egg.read"}]

Operations == CloudfilesOps \cup FreerangeOps

\* what an operation raises before it makes any request, "none" for
\* nothing: the test of the container name in the cloudfiles Connection,
\* of cdn_enabled in the CDN operations, of the object name in
\* delete_object, and the object without a name that get_object finds
\* missing without asking
Validate(o, name, cdn) ==
    CASE o.lib = "cloudfiles" /\ o.name \in ContainerOps ->
            IF BadContainerName(name) THEN "InvalidContainerName" ELSE "none"
      [] o.lib = "cloudfiles"
            /\ o.name \in {"make_public", "make_private",
                           "list_public_containers"} ->
            IF ~ cdn THEN "CDNNotEnabled" ELSE "none"
      [] o.lib = "cloudfiles" /\ o.name \in {"delete_object", "stream"} ->
            IF name = <<>> THEN "InvalidObjectName" ELSE "none"
      [] o.lib = "cloudfiles" /\ o.name = "get_object" ->
            IF name = <<>> THEN "NoSuchObject" ELSE "none"
      [] OTHER -> "none"

\* the requests of an operation, in the order it makes them
Steps(o, name, cdn) ==
    IF o.lib = "cloudfiles"
    THEN CASE o.name = "get_info"               -> get_info
           [] o.name = "create_container"       -> create_container(cdn)
           [] o.name = "delete_container"       -> delete_container(cdn)
           [] o.name = "get_container"          -> get_container(cdn)
           [] o.name = "list_containers"        -> list_containers
           [] o.name = "list_public_containers" -> list_public_containers
           [] o.name = "make_public"            -> make_public
           [] o.name = "make_private"           -> make_private
           [] o.name = "_list_objects_raw"      -> _list_objects_raw
           [] o.name = "delete_object"          -> delete_object
           [] o.name = "create_object"          -> create_object(name)
           [] o.name = "get_object"             -> get_object(name)
           [] o.name = "read"                   -> Object_read
           [] o.name = "stream"                 -> Object_stream
           [] o.name = "sync_metadata"          -> sync_metadata
    ELSE CASE o.name = "create_container"       -> freerange_create_container
           [] o.name = "delete_container"       -> freerange_delete_container
           [] o.name = "get_container"          -> freerange_get_container
           [] o.name = "list_containers"        -> freerange_list_containers
           [] o.name = "read"                   -> freerange_Object_read
           [] o.name = "list_eggs"              -> list_eggs
           [] o.name = "delete_egg"             -> delete_egg
           [] o.name = "create_egg"             -> create_egg
           [] o.name = "Egg.read"               -> Egg_read

\* a Connection whose constructor returned and no operation under way
OpInit ==
    /\ \E cdn_url \in {Nil, MkUrl(2)} : SessionInit(MkUrl(1), cdn_url, 1)
    /\ PoolIdle
    /\ AuthIdle
    /\ WriteIdle
    /\ opc = "idle"
    /\ op = None
    /\ prev = None
    /\ container = None

\* the caller starts an operation: the checks that come before any request;
\* op.at tells where op.error was raised: in these checks, out of
\* make_request or cdn_request, or by the test of a status
OpCall(o, name) ==
    /\ opc = "idle"
    /\ UNCHANGED notop
    /\ LET error == Validate(o, name, cdn_enabled)
           steps == Steps(o, name, cdn_enabled) IN
       /\ op' = [id |-> o, name |-> name, steps |-> steps, resps |-> <<>>,
                 error |-> error, at |-> "check"]
       /\ opc' = IF error # "none" THEN "raised"
                 ELSE IF steps = <<>> THEN "returned"
                 ELSE "request"

\* make_request or cdn_request hands back a response
OpRequest(status) ==
    /\ opc = "request"
    /\ UNCHANGED notop
    /\ LET st == op.steps[Len(op.resps) + 1] IN
       op' = [op EXCEPT !.resps =
                 Append(@, [chan |-> st.chan, method |-> st.method,
                            status |-> status, read |-> FALSE])]
    /\ opc' = "handle"

\* make_request or cdn_request raises: nothing in the operations catches it
OpRequestRaises(kind) ==
    /\ opc = "request"
    /\ UNCHANGED notop
    /\ op' = [op EXCEPT !.error = kind, !.at = "request"]
    /\ opc' = "raised"

\* the code between one request and the next, or the end of the operation
OpHandle ==
    /\ opc = "handle"
    /\ UNCHANGED notop
    /\ LET n == Len(op.resps)
           st == op.steps[n]
           error == Raises(st.check, op.resps[n].status) IN
       /\ op' = [op EXCEPT !.resps[n].read = ReadsBody(st.read, error # "none"),
                           !.error = error, !.at = "status"]
       /\ opc' = IF error # "none" THEN "raised"
                 ELSE IF n < Len(op.steps) THEN "request"
                 ELSE "returned"

\* the caller of stream() runs the generator to its end: the read loop
\* and the last response.read()
Exhaust ==
    /\ opc = "returned"
    /\ op.id.name = "stream"
    /\ op.resps # <<>>
    /\ ~ op.resps[Len(op.resps)].read
    /\ UNCHANGED notop
    /\ op' = [op EXCEPT !.resps[Len(op.resps)].read = TRUE]
    /\ opc' = opc

OpNext ==
    \/ \E o \in Operations, name \in Names : OpCall(o, name)
    \/ \E status \in OpStatuses : OpRequest(status)
    \/ \E kind \in TransportErrors \cup AuthErrors : OpRequestRaises(kind)
    \/ OpHandle
    \/ Exhaust

OpSpec == OpInit /\ [][OpNext]_vars

\* the operation is over
OpOver == opc \in {"returned", "raised"}

(* ------------------------------- C21 ----------------------------------- *)
\* C21: when an operation of Connection, Container, Basket, Object or Egg
\* returns or raises, the body of every response it obtained, over the
\* storage side or the CDN side, has been read.
C21_EveryBodyIsRead ==
    OpOver => \A i \in 1..Len(op.resps) : op.resps[i].read

(* ------------------------------- C22 ----------------------------------- *)
\* C22: create_container, delete_container and get_container of either
\* Connection, called with an empty name or a name with a slash in it,
\* raise InvalidContainerName and make no request.
C22_BadNameRejectedBeforeAnyRequest ==
    (opc # "idle" /\ op.id.name \in ContainerOps /\ BadContainerName(op.name))
        => /\ opc = "raised"
           /\ op.error = "InvalidContainerName"
           /\ op.resps = <<>>

(* ------------------------------- C23 ----------------------------------- *)
\* the operations C23 speaks of: the fetches, the read and delete_container
C23_Ops == {"get_container", "get_object", "read", "Egg.read",
            "delete_container"}

\* the operation has dealt with its i-th response
Handled(i) == i < Len(op.resps) \/ opc # "handle"

\* what the operation raised on its i-th response, "none" when it went on
\* to its next request or returned
Verdict(i) ==
    IF i < Len(op.resps) \/ op.at # "status"
    THEN "none"
    ELSE op.error

C24_ReadRaisesResponseError ==
    (/\ opc \notin {"idle", "none"}
     /\ op.id.name \in {"read", "Egg.read"}
     /\ op.resps # <<>>
     /\ Handled(1)
     /\ ~ Is2xx(op.resps[1].status))
        => opc = "raised" /\ op.at = "status" /\ op.error = "ResponseError"

\* a read answered 404 has raised ResponseError
C24_Witness ==
    /\ opc = "raised"
    /\ op.id.name \in {"read", "Egg.read"}
    /\ op.resps # <<>>
    /\ op.resps[1].status = 404
    /\ op.error = "ResponseError"

(* ======================================================================= *)
(* Connection.__init__: the Connection from the first statement of its     *)
(* constructor on, and then under any sequence of make_request and         *)
(* cdn_request calls                                                       *)
(* ======================================================================= *)
\* the attributes as __init__ sets them before it calls _authenticate();
\* conn_class, uri and cdn_uri are not attributes yet
CtorInit ==
    /\ token = None
    /\ connection_args = Nil
    /\ conn_class = "unset"
    /\ uri = Nil
    /\ connection = None
    /\ cdn_enabled = FALSE
    /\ cdn_args = Nil
    /\ cdn_uri = Nil
    /\ cdn_connection = None
    /\ pc = "init"
    /\ chan = "none"
    /\ req = None
    /\ response = None
    /\ retry_from = "none"
    /\ outcome = None
    /\ state0 = None
    /\ log = <<>>
    /\ PoolIdle
    /\ AuthIdle
    /\ WriteIdle
    /\ OpIdle

\* __init__ runs _authenticate() and returns: the caller has the Connection
Connection__init__(url, cdn_url, tok) ==
    /\ pc = "init"
    /\ UNCHANGED notsess
    /\ _authenticate(url, cdn_url, tok)
    /\ pc' = "idle"
    /\ UNCHANGED <<chan, req, response, retry_from, outcome, state0, log>>

\* __init__ raises, the TypeError of its argument test or what
\* self.auth.authenticate() raised: the caller gets the exception and no
\* Connection
Connection__init__Raises(kind) ==
    /\ pc = "init"
    /\ UNCHANGED notsess
    /\ pc' = "failed"
    /\ outcome' = [raised |-> kind]
    /\ UNCHANGED <<session, chan, req, response, retry_from, state0, log>>

CtorNext ==
    \/ \E url \in Urls, cdn_url \in Urls \cup {Nil}, tok \in Tokens :
          Connection__init__(url, cdn_url, tok)
    \/ \E kind \in AuthErrors \cup {"TypeError"} :
          Connection__init__Raises(kind)
    \/ Next

CtorSpec == CtorInit /\ [][CtorNext]_vars

(* ------------------------------- C25 ----------------------------------- *)
\* the caller has been handed the Connection
Constructed == pc \notin {"init", "failed"}

\* one token, a storage handle for the current host and port, and a CDN
\* handle for the current CDN host and port when the CDN side is enabled
Authenticated ==
    /\ token \in Tokens
    /\ connection = NewConnection(conn_class, connection_args[1],
                                  connection_args[2])
    /\ cdn_enabled =>
          cdn_connection = NewConnection(ConnClass(cdn_args[4]), cdn_args[1],
                                         cdn_args[2])

\* C25: a Connection whose constructor returned is Authenticated, and stays
\* so in every state that calls of make_request and cdn_request lead to; a
\* Connection whose first authentication raised takes no step at all, the
\* caller having no reference to it.
C25_ConstructedIsAuthenticated ==
    /\ [](Constructed => Authenticated)
    /\ [][pc # "failed"]_vars

\* a call that authenticated again, and got a CDN URL the constructor had
\* not got, is over
C25_Witness ==
    /\ CallOver
    /\ AuthCalls = 1
    /\ cdn_enabled
    /\ ~ state0.cdn_enabled
    /\ Authenticated

(* ======================================================================= *)
(* A caller that makes a call, keeps what it returned, and makes further   *)
(* calls                                                                   *)
(* ======================================================================= *)
\* the descriptor the running call was made with: cdn_request or
\* make_request, the method, the path segments, the query and the data
Descriptor ==
    [chan |-> chan, method |-> req.method, segs |-> req.path.segs,
     query |-> req.path.query, data |-> req.data]

\* the transport raised nothing during the running call and gave the one
\* answer resp to every request of it
TransportAnswered(resp) ==
    /\ RaiseLog = <<>>
    /\ ResponseLog # <<>>
    /\ \A i \in 1..Len(ResponseLog) : ResponseLog[i].resp = resp

TwiceInit ==
    /\ \E cdn_url \in {Nil, MkUrl(2)} : SessionInit(MkUrl(1), cdn_url, 1)
    /\ PoolIdle
    /\ AuthIdle
    /\ WriteIdle
    /\ OpIdle

\* the caller keeps the descriptor and the response of a call during which
\* the transport gave one answer, other than 401, and never raised, and the
\* Session State the call left
Remember ==
    /\ pc = "returned"
    /\ prev = None
    /\ \E resp \in Responses : resp.status # 401 /\ TransportAnswered(resp)
    /\ prev' = [descriptor |-> Descriptor, answer |-> ResponseLog[1].resp,
                returned |-> outcome, state |-> SessionState]
    /\ UNCHANGED <<sessvars, poolvars, authvars, writevars, opvars,
                   container>>

\* the steps of Next, with the two descriptors that are not the account
\* HEAD and an authentication service that repeats the storage URL, names
\* no CDN URL and hands out any token
TwiceNext ==
    \/ \E d \in {e \in Descriptors : e.method # "HEAD"} :
          make_request(d.method, d.path, d.data, d.hdrs, d.parms)
    \/ \E d \in {e \in Descriptors : e.method # "HEAD"} :
          cdn_request(d.method, d.path, d.data, d.hdrs)
    \/ SendRequest
    \/ \E k \in TransportErrors : SendRequestRaises(k)
    \/ \E r \in Responses : GetResponse(r)
    \/ \E k \in TransportErrors : GetResponseRaises(k)
    \/ RetryConnect
    \/ RetrySend
    \/ \E k \in TransportErrors : RetrySendRaises(k)
    \/ \E r \in Responses : RetryGetResponse(r)
    \/ \E k \in TransportErrors : RetryGetResponseRaises(k)
    \/ CheckStatus
    \/ \E t \in Tokens : Authenticate(MkUrl(1), Nil, t)
    \/ \E k \in AuthErrors : AuthenticateRaises(k)
    \/ Return
    \/ Remember

TwiceSpec == TwiceInit /\ [][TwiceNext]_vars

(* ------------------------------- C26 ----------------------------------- *)
\* a call is over that had the descriptor of the call the caller remembers,
\* and during which the transport again never raised and gave the same one
\* answer
C26_Case ==
    /\ CallOver
    /\ prev # None
    /\ req # None
    /\ Descriptor = prev.descriptor
    /\ state0 = prev.state
    /\ TransportAnswered(prev.answer)

\* C26: of two consecutive calls with the same descriptor on one Connection,
\* during which the transport never raises and always gives the same
\* answer, the second returns the response the first returned and leaves
\* the Session State the first left.
C26_SecondCallRepeatsFirst ==
    C26_Case => /\ outcome = prev.returned
                /\ SessionState = prev.state

\* the second of two such calls has returned
C26_Witness ==
    /\ C26_Case
    /\ pc = "returned"
    /\ outcome = [returned |-> prev.answer]

(* ------------------------------- C27 ----------------------------------- *)
\* write() or send() has raised socket.timeout with a response in hand
C27_Case ==
    /\ wpc = "raised"
    /\ w.error = "timeout"
    /\ w.response # None

\* C27 as stated: when write() or send() raises socket.timeout after it got
\* a response object, the rest of the response has been read, and the write
\* is not tried again.
C27_DrainedBeforeReraise ==
    /\ [](C27_Case => w.drained)
    /\ [][~ (wpc = "raised" /\ w.error = "timeout")]_vars

\* C27 amended: when write() or send() raises socket.timeout after it got a
\* response object, the handler has called read() on the response before
\* the raise, and the write is not tried again.
C27_DrainAttemptedBeforeReraise ==
    /\ [](C27_Case => w.handler_read)
    /\ [][~ (wpc = "raised" /\ w.error = "timeout")]_vars

\* the read of the response timed out, the handler read the rest, and the
\* timeout was raised
C27_Witness ==
    /\ C27_Case
    /\ w.handler_read
    /\ w.drained

(* ------------------------------- C28 ----------------------------------- *)
\* C28: a request that make_request sends after it authenticated again goes
\* over a handle for the host and port of the storage URL the
\* authentication returned, and its path begins with the path prefix of
\* that URL.
C28_ReissuedRequestUsesNewBaseUrl ==
    \A i \in 1..Len(log) :
        (/\ log[i].ev = "request"
         /\ log[i].chan = "storage"
         /\ \E j \in 1..(i - 1) : log[j].ev = "authenticate" /\ log[j].ok)
            => /\ log[i].conn = NewConnection(conn_class, connection_args[1],
                                              connection_args[2])
               /\ log[i].path.prefix = connection_args[3]

(* ------------------------------- C29 ----------------------------------- *)
\* the call has ended with the HTTPException that reading a response raised
LeftOnReadError ==
    /\ pc = "raised"
    /\ log # <<>>
    /\ log[Len(log)] = [ev |-> "raise", at |-> "getresponse",
                        kind |-> HTTPException]

\* C29: a call that authenticated again and has used no transport retry
\* does not end with the HTTPException that reading the response to the
\* re-issued request raises, the error the first attempt is retried on; and
\* a call whose transport retry was answered 401 authenticates once before
\* it returns.
C29_RetriesComposeInEitherOrder ==
    /\ ~ (LeftOnReadError /\ AuthCalls = 1 /\ TransportRetries = 0)
    /\ (C6_Case /\ pc \in {"return", "returned"}) => AuthCalls = 1

(* ======================================================================= *)
(* make_request and cdn_request side by side: a caller on a CDN-enabled    *)
(* Connection that keeps what one make_request call did and goes on        *)
(* calling                                                                 *)
(* ======================================================================= *)
PairInit ==
    /\ SessionInit(MkUrl(1), MkUrl(2), 1)
    /\ PoolIdle
    /\ AuthIdle
    /\ WriteIdle
    /\ OpIdle

\* the caller keeps the log and the outcome of a make_request call, and
\* the Session State it started from
RememberCall ==
    /\ CallOver
    /\ chan = "storage"
    /\ prev = None
    /\ prev' = [chan |-> chan, log |-> log, outcome |-> outcome,
                state0 |-> state0]
    /\ UNCHANGED <<sessvars, poolvars, authvars, writevars, opvars,
                   container>>

\* the steps of Next for the container listing, with one body for every
\* status and an authentication service that repeats the storage URL
PairNext ==
    \/ \E d \in {e \in Descriptors : e.method = "GET"} :
          make_request(d.method, d.path, d.data, d.hdrs, d.parms)
    \/ \E d \in {e \in Descriptors : e.method = "GET"} :
          cdn_request(d.method, d.path, d.data, d.hdrs)
    \/ SendRequest
    \/ \E k \in TransportErrors : SendRequestRaises(k)
    \/ \E r \in {s \in Responses : s.body = 1} : GetResponse(r)
    \/ \E k \in TransportErrors : GetResponseRaises(k)
    \/ RetryConnect
    \/ RetrySend
    \/ \E k \in TransportErrors : RetrySendRaises(k)
    \/ \E r \in {s \in Responses : s.body = 1} : RetryGetResponse(r)
    \/ \E k \in TransportErrors : RetryGetResponseRaises(k)
    \/ CheckStatus
    \/ \E c \in {Nil, MkUrl(2)}, t \in Tokens : Authenticate(MkUrl(1), c, t)
    \/ \E k \in AuthErrors : AuthenticateRaises(k)
    \/ Return
    \/ RememberCall

PairSpec == PairInit /\ [][PairNext]_vars

(* ------------------------------- C30 ----------------------------------- *)
\* the reconnects of retry_request() in the log l of a finished call: a
\* connect of _authenticate() is followed by another connect, that of
\* retry_request() by the request it sends or the error of sending it
IsReconnect(l, i) ==
    /\ l[i].ev = "connect"
    /\ i < Len(l)
    /\ l[i + 1].ev # "connect"

\* what the transport and the authentication service did during a call:
\* the responses, the errors raised and the outcomes of authenticate()
Schedule(l) ==
    SelectSeq(l, LAMBDA e : e.ev \in {"response", "raise", "authenticate"})

\* the attempts, reconnects and re-authentications of a finished call in
\* their order, with what answered them, the channel left out
RECURSIVE Attempts(_, _)
Attempts(l, i) ==
    IF i > Len(l) THEN <<>>
    ELSE (CASE l[i].ev = "request" ->
                  <<[ev |-> "request", method |-> l[i].method,
                     data |-> l[i].data, headers |-> l[i].headers]>>
            [] l[i].ev = "connect" ->
                  IF IsReconnect(l, i) THEN <<[ev |-> "reconnect"]>>
                  ELSE <<>>
            [] OTHER -> <<l[i]>>)
         \o Attempts(l, i + 1)

\* a cdn_request call on a CDN-enabled Connection is over that started from
\* the Session State of the make_request call the caller remembers, and
\* the transport and the authentication service did during it what they
\* did during that call
C30_Case ==
    /\ CallOver
    /\ chan = "cdn"
    /\ prev # None
    /\ state0 = prev.state0
    /\ Schedule(log) = Schedule(prev.log)

\* C30: a cdn_request call on a CDN-enabled Connection makes the attempts,
\* reconnects and re-authentications of the make_request call with the same
\* schedule, in the same order, and ends as it does; its requests and
\* reconnects are on the CDN side; and a cdn_request call that did not
\* authenticate again has not reconnected the storage side nor changed the
\* storage handle.
C30_CdnRequestMirrorsMakeRequest ==
    /\ C30_Case =>
          /\ Attempts(log, 1) = Attempts(prev.log, 1)
          /\ outcome = prev.outcome
    /\ (CallOver /\ chan = "cdn") =>
          /\ \A i \in 1..Len(log) :
                (log[i].ev = "request" \/ IsReconnect(log, i))
                    => log[i].chan = "cdn"
          /\ AuthCalls = 0 =>
                /\ \A i \in 1..Len(log) :
                      log[i].ev = "connect" => log[i].chan = "cdn"
                /\ connection = state0.connection
                /\ connection_args = state0.connection_args
                /\ uri = state0.uri

\* a cdn_request call that recovered from an HTTPException and then from a
\* 401, as the remembered make_request call did, has returned
C30_Witness ==
    /\ C30_Case
    /\ pc = "returned"
    /\ TransportRetries = 1
    /\ AuthCalls = 1

(* ======================================================================= *)
(* The transport after an operation                                        *)
(* ======================================================================= *)

\* the handle self.container.conn.connection after __get_conn_for_write put
\* a request on it: the request stays outstanding until its response has
\* been obtained and read to the end; send() raises InvalidObjectSize
\* before it touches the handle
WriteOutstanding ==
    /\ w # None
    /\ w.error # "InvalidObjectSize"
    /\ ~(w.response # None /\ w.drained)

(* ------------------------------- C32 ----------------------------------- *)
\* C32: after an operation has ended in an error raised to the caller,
\* IncompleteSend and the timeout of the write path included, the transport
\* of the Connection is valid for reuse: no request is left outstanding on
\* it that would make the next request fail
C32_TransportValidAfterError ==
    wpc = "raised" => ~WriteOutstanding

(* ------------------------ one operation after another ------------------ *)
Channels == {"storage", "cdn"}

\* the last response an operation obtained over channel c, 0 for none
LastOn(resps, c, n) ==
    LET on == {j \in 1..n : resps[j].chan = c}
    IN  IF on = {} THEN 0 ELSE CHOOSE j \in on : \A k \in on : k <= j

\* the caller goes on to its next operation on the same Connection; prev
\* keeps the channels whose last response it left with its body unread
NextOperation ==
    /\ OpOver
    /\ prev = None
    /\ prev' = [unread |->
                  {c \in Channels :
                      LET j == LastOn(op.resps, c, Len(op.resps))
                      IN  j # 0 /\ ~ op.resps[j].read}]
    /\ opc' = "idle"
    /\ op' = None
    /\ UNCHANGED <<sessvars, poolvars, authvars, writevars, container>>

SeqNext == OpNext \/ NextOperation

SeqSpec == OpInit /\ [][SeqNext]_vars

(* ------------------------------- C33 ----------------------------------- *)
\* the i-th request of the running operation went out over a channel whose
\* previous response, of this operation or of the one before, was unread
SentOnBusy(i) ==
    LET c == op.resps[i].chan
        j == LastOn(op.resps, c, i - 1)
    IN  IF j # 0 THEN ~ op.resps[j].read
        ELSE prev # None /\ c \in prev.unread

\* C33: no request is sent over a channel of the Connection while the body
\* of the previous response on that channel is unread, whatever operations
\* came before, a stream() generator left unexhausted included
C33_NoRequestOnBusyTransport ==
    opc \notin {"none", "idle"} =>
        \A i \in 1..Len(op.resps) : ~ SentOnBusy(i)

(* ------------------------------- C34 ----------------------------------- *)
\* a call of make_request or cdn_request is under way
Running == pc \notin {"init", "failed", "idle", "returned", "raised"}

\* the steps of a call under way
CallStep ==
    \/ SendRequest
    \/ \E k \in TransportErrors : SendRequestRaises(k)
    \/ \E r \in Responses : GetResponse(r)
    \/ \E k \in TransportErrors : GetResponseRaises(k)
    \/ RetryConnect
    \/ RetrySend
    \/ \E k \in TransportErrors : RetrySendRaises(k)
    \/ \E r \in Responses : RetryGetResponse(r)
    \/ \E k \in TransportErrors : RetryGetResponseRaises(k)
    \/ CheckStatus
    \/ \E u \in Urls, c \in Urls \cup {Nil}, t \in Tokens :
          Authenticate(u, c, t)
    \/ \E k \in AuthErrors : AuthenticateRaises(k)
    \/ Return

\* the statements a call has left at most, by its position
StepsLeft ==
    CASE pc = "request"       -> 12
      [] pc = "getresponse"   -> 11
      [] pc = "retry_connect" /\ retry_from = "except"     -> 10
      [] pc = "retry_request" /\ retry_from = "except"     -> 9
      [] pc = "retry_getresponse" /\ retry_from = "except" -> 8
      [] pc = "check_status"  -> 7
      [] pc = "authenticate"  -> 6
      [] pc = "retry_connect" /\ retry_from = "auth"       -> 5
      [] pc = "retry_request" /\ retry_from = "auth"       -> 4
      [] pc = "retry_getresponse" /\ retry_from = "auth"   -> 3
      [] pc = "return"        -> 2
      [] pc \in {"returned", "raised"} -> 0
      [] OTHER -> 13

\* C34: every call runs to completion when each transport and authenticator
\* operation returns or raises: a call under way always has a step to take,
\* every step leaves it fewer steps to go, it never transmits the request
\* more than three times nor calls the authenticator more than once, and it
\* ends with a response returned or an error raised
C34_CallRunsToCompletion ==
    /\ [](Running => ENABLED CallStep)
    /\ [][Running => StepsLeft' < StepsLeft]_vars
    /\ [](Len(RequestLog) <= 3 /\ AuthCalls <= 1)
    /\ [](pc = "returned" => /\ outcome = [returned |-> response]
                             /\ response \in Responses)
    /\ [](pc = "raised" => DOMAIN outcome = {"raised"})

\* a call that ended after three transmissions and one authenticator call,
\* the third transmission lost
C34_Witness ==
    /\ pc = "raised"
    /\ Len(RequestLog) = 3
    /\ AuthCalls = 1
    /\ log[Len(log)].ev = "raise"

(* ------------------------------- C35 ----------------------------------- *)
\* the Session State that holds nothing but the result (url, cdn_url, tok)
\* of an authentication
StateOf(url, cdn_url, tok) ==
    [token |-> tok,
     connection_args |-> parse_url(url),
     uri |-> parse_url(url)[3],
     connection |-> NewConnection(ConnClass(parse_url(url)[4]),
                                  parse_url(url)[1], parse_url(url)[2]),
     cdn_enabled |-> (cdn_url # Nil),
     cdn_args |-> IF cdn_url = Nil THEN Nil ELSE parse_url(cdn_url),
     cdn_uri |-> IF cdn_url = Nil THEN Nil ELSE parse_url(cdn_url)[3],
     cdn_connection |->
         IF cdn_url = Nil THEN None
         ELSE NewConnection(ConnClass(parse_url(cdn_url)[4]),
                            parse_url(cdn_url)[1], parse_url(cdn_url)[2])]

\* C35: re-authentication replaces the Session State wholesale with the
\* latest result of the authenticator: token, storage host, port and path
\* prefix and the CDN fields all reflect it, so that a result without a CDN
\* URL leaves the session not CDN-enabled
C35_ReauthReplacesState ==
    [][\A u \in Urls, c \in Urls \cup {Nil}, t \in Tokens :
          Authenticate(u, c, t) => SessionState' = StateOf(u, c, t)]_vars

(* ------------------------------- C36 ----------------------------------- *)
\* write() or send() raised ResponseError for a 401
WriteSurfaced401 ==
    /\ w # None
    /\ wpc = "raised"
    /\ w.error = "ResponseError"
    /\ w.response.status = 401

\* C36: no storage operation, the uploads of Object.write and Object.send
\* included, surfaces a 401 to its caller unless the authenticator was
\* called once and the request was transmitted once more before
C36_No401WithoutReauth ==
    WriteSurfaced401 => (AuthCalls = 1 /\ Len(RequestLog) >= 1)

(* ======================================================================= *)
(* One Object written several times                                        *)
(* ======================================================================= *)

\* write() or send() is over and the caller goes on with the same Object
NextWrite ==
    /\ wpc \in {"done", "raised"}
    /\ wpc' = "idle"
    /\ UNCHANGED <<obj, w>>
    /\ UNCHANGED notwrite

\* Object._initialize on an Object in use: the etag header of the HEAD
\* response, when there is one, becomes the etag and ends the override
Reinitialize(status, etag) ==
    /\ wpc = "idle"
    /\ obj' = IF status \in 200..299 /\ etag # None
              THEN [obj EXCEPT !.etag = etag, !.etag_override = FALSE]
              ELSE obj
    /\ UNCHANGED <<wpc, w>>
    /\ UNCHANGED notwrite

\* the data of these uploads: a str of at most one chunk, an iterable of at
\* most one chunk
ShortSources   == { s \in StrSources : Len(s.content) <= ChunkSize }
ShortIterables == { it \in Iterables : Len(it) <= 1 }

\* the uploads of short data, one after another
RewriteNext ==
    \/ \E v \in CallerEtags : SetEtag(v)
    \/ \E n \in 0..ChunkSize : SetSize(n)
    \/ \E src \in ShortSources, verify \in BOOLEAN : Write(src, verify, FALSE)
    \/ WriteChunk
    \/ WriteLoopEnd
    \/ \E it \in ShortIterables : Send(it)
    \/ SendChunk
    \/ SendLoopEnd
    \/ \E st \in {201, 422}, with_etag \in BOOLEAN :
          WriteGetResponse(st, with_etag)
    \/ WriteCheckStatus
    \/ NextWrite
    \/ \E st \in {200, 404}, e \in {None, md5(<<1>>)} : Reinitialize(st, e)

RewriteSpec == WriteInit /\ [][RewriteNext]_vars

(* ------------------------------- C37 ----------------------------------- *)
\* a write(verify=True) or a send() has put its request on the transport
VerifiedUpload ==
    /\ w # None
    /\ wpc \in {"loop", "sendloop", "getresponse", "status", "done"}
    /\ (w.entry = "send" \/ w.verify)

\* C37: once the caller has assigned a checksum through the etag setter,
\* write(verify=True) and send() send that checksum as the ETag header and
\* never one computed locally, in every later write of any data, until the
\* object is initialised again from a response that carries an ETag
C37_CallerEtagStays ==
    (obj.etag_override /\ VerifiedUpload) =>
        /\ "ETag" \in DOMAIN w.headers
        /\ w.headers["ETag"] \in CallerEtags

(* ======================================================================= *)
(* A Container and the CDN (src/cloudfiles/container.py)                   *)
(* ======================================================================= *)
\* cdn_uri and the x-cdn-uri header: a URI, or NoUri for None; cdn_ttl is a
\* number of seconds, 0 for None
CdnUris     == {"http://cdn1.example/c", "http://cdn2.example/c"}
NoUri       == "None"
Ttls        == {3600, 86400}
CdnStatuses == {201, 202, 404, 500}

\* Container.__init__ on a CDN-enabled Connection: _fetch_cdn_data took
\* cdn_uri and cdn_ttl from the headers of a 2xx answer, or left them None
NewContainer(x_cdn_uri, x_ttl) ==
    [cdn_uri |-> x_cdn_uri, cdn_ttl |-> x_ttl,
     last |-> "none", method |-> "", status |-> 0, error |-> "",
     answer |-> "unasked"]

CdnInit ==
    /\ \E cdn_url \in {Nil, MkUrl(2)} : SessionInit(MkUrl(1), cdn_url, 1)
    /\ PoolIdle
    /\ AuthIdle
    /\ WriteIdle
    /\ opc = "none"
    /\ op = None
    /\ prev = None
    /\ IF cdn_enabled
       THEN \E u \in CdnUris \cup {NoUri}, ttl \in Ttls \cup {0} :
               container = NewContainer(u, ttl)
       ELSE container = NewContainer(NoUri, 0)

\* Container.make_public(ttl), given the status of the CDN's answer and its
\* x-cdn-uri header, NoUri for no such header
Container_make_public(ttl, status, hdr) ==
    /\ container' =
          IF ~ cdn_enabled
          THEN [container EXCEPT !.error = "CDNNotEnabled", !.method = "",
                                 !.answer = "unasked"]
          ELSE LET request_method ==
                       IF container.cdn_uri # NoUri THEN "POST" ELSE "PUT"
               IN  IF status < 200 \/ status >= 300
                   THEN [container EXCEPT !.error = "ResponseError",
                                          !.method = request_method,
                                          !.status = status,
                                          !.answer = "unasked"]
                   ELSE [container EXCEPT !.error = "",
                                          !.method = request_method,
                                          !.status = status,
                                          !.last = "make_public",
                                          !.cdn_ttl = ttl,
                                          !.cdn_uri = IF hdr # NoUri THEN hdr
                                                      ELSE @,
                                          !.answer = "unasked"]
    /\ UNCHANGED <<sessvars, poolvars, authvars, writevars, opvars, prev>>

\* Container.make_private, given the status of the CDN's answer
Container_make_private(status) ==
    /\ container' =
          IF ~ cdn_enabled
          THEN [container EXCEPT !.error = "CDNNotEnabled", !.method = "",
                                 !.answer = "unasked"]
          ELSE IF status < 200 \/ status >= 300
          THEN [container EXCEPT !.error = "ResponseError", !.method = "POST",
                                 !.status = status,
                                 !.answer = "unasked"]
          ELSE [container EXCEPT !.error = "", !.method = "POST",
                                 !.status = status,
                                 !.last = "make_private",
                                 !.answer = "unasked"]
    /\ UNCHANGED <<sessvars, poolvars, authvars, writevars, opvars, prev>>

\* Container.is_public: "return self.cdn_uri is not None"
Container_is_public ==
    /\ container.answer = "unasked"
    /\ container' =
          IF ~ cdn_enabled
          THEN [container EXCEPT !.error = "CDNNotEnabled",
                                 !.answer = "raised"]
          ELSE [container EXCEPT !.error = "",
                                 !.answer = IF container.cdn_uri # NoUri
                                            THEN "True" ELSE "False"]
    /\ UNCHANGED <<sessvars, poolvars, authvars, writevars, opvars, prev>>

\* the CDN answers the PUT that publishes a container with its URI; the
\* answer to the POST that updates one may leave the header out
CdnNext ==
    \/ \E ttl \in Ttls, st \in CdnStatuses, hdr \in CdnUris \cup {NoUri} :
          /\ hdr = NoUri => container.cdn_uri # NoUri
          /\ Container_make_public(ttl, st, hdr)
    \/ \E st \in CdnStatuses : Container_make_private(st)
    \/ Container_is_public

CdnSpec == CdnInit /\ [][CdnNext]_vars

(* ------------------------------- C38 ----------------------------------- *)
\* C38: on a CDN-enabled Connection is_public() tells whether the container
\* is published: it returns True when the last successful change was a
\* make_public() and False when it was a make_private(), after any sequence
\* of the two
C38_IsPublicReflectsPublication ==
    (cdn_enabled /\ container.answer \in {"True", "False"}) =>
        /\ container.last = "make_public" => container.answer = "True"
        /\ container.last = "make_private" => container.answer = "False"
====
